---- MODULE Spec2Model ----
(***************************************************************************)
(* Internal transfer service: the transfer engine of                       *)
(* internal/service/transaction_service.go over the PostgreSQL store of    *)
(* internal/repository (accounts and transactions tables, row locks taken  *)
(* by SELECT ... FOR UPDATE, one database transaction per transfer).       *)
(*                                                                         *)
(* WithTransaction opens the unit of work with db.Begin() and no options,  *)
(* i.e. PostgreSQL's default READ COMMITTED level: every statement sees    *)
(* the rows committed when it starts, a locked read waits for the holder   *)
(* of the row lock and then reads the newest committed row, and an insert  *)
(* that collides with an uncommitted entry of a unique index waits for     *)
(* that entry's transaction to end.                                        *)
(***************************************************************************)
EXTENDS Integers, Sequences, FiniteSets, TLC

(***************************************************************************)
(* Bounds of the model.                                                    *)
(***************************************************************************)
MaxProcs == 2      \* concurrent callers of Transfer
MaxCalls == 2      \* Transfer calls started in one behaviour
MaxAcct == 2      \* account identities 1..MaxAcct
MaxKeys == 1      \* idempotency keys 1..MaxKeys

Procs == 1..MaxProcs
AcctIds == 1..MaxAcct
\* the rows the accounts table has room for: the identities of AcctIds and,
\* for transfers over disjoint pairs, one pair of identities per caller
Rows == 1..(IF MaxAcct > 2 * MaxProcs THEN MaxAcct ELSE 2 * MaxProcs)
Keys == 1..MaxKeys
NoKey == 0       \* nil *uuid.UUID: the request carries no key
NoProc == 0

(***************************************************************************)
(* decimal.Decimal.  A value is sign and magnitude; the magnitude is       *)
(* hi * 10^9 + mid + lo * 10^-9 with mid, lo in 0..Limb-1, so that nine    *)
(* fractional digits and the limits 10^9 and 10^10 are all exact in        *)
(* 32-bit arithmetic.                                                      *)
(***************************************************************************)
Limb == 1000000000

D(h, m, l) == [neg |-> FALSE, hi |-> h, mid |-> m, lo |-> l]

Zero == D(0, 0, 0)

IsZero(a) == a.hi = 0 /\ a.mid = 0 /\ a.lo = 0

IsNegative(a) == a.neg /\ ~IsZero(a)

MagLess(a, b) ==
    \/ a.hi < b.hi
    \/ a.hi = b.hi /\ a.mid < b.mid
    \/ a.hi = b.hi /\ a.mid = b.mid /\ a.lo < b.lo

LessThan(a, b) ==
    IF IsNegative(a) /\ ~IsNegative(b) THEN TRUE
    ELSE IF ~IsNegative(a) /\ IsNegative(b) THEN FALSE
    ELSE IF IsNegative(a) THEN MagLess(b, a)
    ELSE MagLess(a, b)

GreaterThan(a, b) == LessThan(b, a)

MagAdd(a, b) ==
    LET l  == a.lo + b.lo
        cl == IF l >= Limb THEN 1 ELSE 0
        m  == a.mid + b.mid + cl
        cm == IF m >= Limb THEN 1 ELSE 0
    IN  [neg |-> FALSE, hi |-> a.hi + b.hi + cm,
         mid |-> m - cm * Limb, lo |-> l - cl * Limb]

\* a - b for magnitudes with b <= a
MagSub(a, b) ==
    LET bl == IF a.lo < b.lo THEN 1 ELSE 0
        l  == a.lo + bl * Limb - b.lo
        bm == IF a.mid < b.mid + bl THEN 1 ELSE 0
        m  == a.mid + bm * Limb - b.mid - bl
    IN  [neg |-> FALSE, hi |-> a.hi - b.hi - bm, mid |-> m, lo |-> l]

\* Decimal.Add, for the operands the service passes (both non-negative)
Add(a, b) == MagAdd(a, b)

\* Decimal.Sub, for non-negative operands; the result is negative if a < b
Sub(a, b) ==
    IF MagLess(a, b) THEN [MagSub(b, a) EXCEPT !.neg = TRUE]
    ELSE MagSub(a, b)

(***************************************************************************)
(* A DECIMAL(20, 8) column.  The repositories pass Decimal.String() and    *)
(* the column keeps 8 fractional digits: PostgreSQL rounds the ninth       *)
(* digit half away from zero.                                              *)
(***************************************************************************)
StoreNumeric(a) ==
    LET l  == ((a.lo + 5) \div 10) * 10
        cl == IF l >= Limb THEN 1 ELSE 0
        m  == a.mid + cl
        cm == IF m >= Limb THEN 1 ELSE 0
    IN  [neg |-> a.neg, hi |-> a.hi + cm, mid |-> m - cm * Limb,
         lo |-> l - cl * Limb]

\* CHECK (balance >= 0) of the accounts table
BalanceCheck(b) == ~LessThan(b, Zero)

(***************************************************************************)
(* Inputs of the calls.                                                    *)
(***************************************************************************)
InitialBalances == { D(0, 0, 30000000),        \* 0.03
                     D(0, 1000, 500000000),    \* 1000.50
                     D(0, 500, 250000000) }    \* 500.25

Amounts == { D(0, 0, 15000000),                \* 0.015
             D(0, 0, 15000005),                \* 0.015000005
             D(0, 200, 500000000),             \* 200.50
             Zero }                            \* 0.00

\* identities a request may name: 0 is not positive; 1..MaxAcct are
\* well-formed and name a row only once the account is created
ReqIds == 0..MaxAcct

MaxAmount == D(1, 0, 0)                        \* decimal.NewFromInt(1_000_000_000)
MinAmount == D(0, 0, 10000000)                 \* decimal.NewFromFloat(0.01)

(***************************************************************************)
(* State.                                                                  *)
(***************************************************************************)
VARIABLES
    accounts,   \* accounts table, committed: identity -> balance or Absent
    journal,    \* transactions table, committed rows
    lockOwner,  \* row lock of each account: the holding call, or NoProc
    pc,         \* position of each call inside Transfer
    req,        \* the TransferRequest of each call
    firstAccount,   \* balance read by the first locked read
    secondAccount,  \* balance read by the second locked read
    txRow,      \* the uncommitted transactions row of the unit of work
    wSrc,       \* uncommitted balance written to the source row
    wDst,       \* uncommitted balance written to the destination row
    transaction,    \* the *domain.Transaction variable of Transfer
    result,     \* what the last call of each caller returned
    nextId,     \* stands for uuid.New(): the next unused transaction id
    calls,      \* number of Transfer calls started
    opening,    \* history: the balance each account was created with
    seen,       \* history: id of the committed row holding the call's key
                \* when the call started, or 0
    applied,    \* history: the requests whose balance writes were committed
    refused,    \* history: key and row id of the keyed calls that returned
                \* ErrInsufficientBalance
    retry       \* history: row id of the refused attempt that carried the
                \* call's key when the call started, or 0

vars == <<accounts, journal, lockOwner, pc, req, firstAccount, secondAccount,
          txRow, wSrc, wDst, transaction, result, nextId, calls, opening, seen,
          applied, refused, retry>>

Absent == [neg |-> FALSE, hi |-> -1, mid |-> 0, lo |-> 0]

NoRow == [id |-> 0, src |-> 0, dst |-> 0, amount |-> Zero, key |-> NoKey,
          status |-> "none"]

NoReq == [src |-> 0, dst |-> 0, amount |-> Zero, key |-> NoKey,
          expired |-> FALSE, waiting |-> FALSE]

NoResult == [kind |-> "none", id |-> 0, status |-> "none", code |-> "none"]

TxResult(t) == [kind |-> "tx", id |-> t.id, status |-> t.status, code |-> "none"]

ErrResult(c) == [kind |-> "err", id |-> 0, status |-> "none", code |-> c]

Init ==
    /\ accounts = [a \in Rows |-> Absent]
    /\ journal = {}
    /\ lockOwner = [a \in Rows |-> NoProc]
    /\ pc = [p \in Procs |-> "idle"]
    /\ req = [p \in Procs |-> NoReq]
    /\ firstAccount = [p \in Procs |-> Absent]
    /\ secondAccount = [p \in Procs |-> Absent]
    /\ txRow = [p \in Procs |-> NoRow]
    /\ wSrc = [p \in Procs |-> Absent]
    /\ wDst = [p \in Procs |-> Absent]
    /\ transaction = [p \in Procs |-> NoRow]
    /\ result = [p \in Procs |-> NoResult]
    /\ nextId = 1
    /\ calls = 0
    /\ opening = [a \in Rows |-> Absent]
    /\ seen = [p \in Procs |-> 0]
    /\ applied = {}
    /\ refused = {}
    /\ retry = [p \in Procs |-> 0]

(***************************************************************************)
(* Helpers of Transfer.                                                    *)
(***************************************************************************)
\* variant: the amount is validated before the identities are compared
ValidateTransfer_AmountFirst(s, d, amt) ==
    IF s <= 0 \/ d <= 0 THEN "invalid_input"
    ELSE IF IsNegative(amt) \/ IsZero(amt) THEN "invalid_amount"
    ELSE IF GreaterThan(amt, MaxAmount) THEN "invalid_amount"
    ELSE IF LessThan(amt, MinAmount) THEN "invalid_amount"
    ELSE IF s = d THEN "same_account_transfer"
    ELSE "ok"

\* variant: the limits themselves are refused
ValidateTransfer_StrictLimits(s, d, amt) ==
    IF s <= 0 \/ d <= 0 THEN "invalid_input"
    ELSE IF s = d THEN "same_account_transfer"
    ELSE IF IsNegative(amt) \/ IsZero(amt) THEN "invalid_amount"
    ELSE IF ~LessThan(amt, MaxAmount) THEN "invalid_amount"
    ELSE IF ~GreaterThan(amt, MinAmount) THEN "invalid_amount"
    ELSE "ok"

\* parseAccountIDs, then validateTransfer: the error code, or "ok"
ValidateTransfer(s, d, amt) ==
    IF s <= 0 \/ d <= 0 THEN "invalid_input"
    ELSE IF s = d THEN "same_account_transfer"
    ELSE IF IsNegative(amt) \/ IsZero(amt) THEN "invalid_amount"
    ELSE IF GreaterThan(amt, MaxAmount) THEN "invalid_amount"
    ELSE IF LessThan(amt, MinAmount) THEN "invalid_amount"
    ELSE "ok"

\* variant: the rows are locked source first, destination second
LockOrder_SourceFirst(p) == <<req[p].src, req[p].dst>>

\* variant: the larger identity is locked first
LockOrder_LargerFirst(p) ==
    IF req[p].src < req[p].dst THEN <<req[p].dst, req[p].src>>
    ELSE <<req[p].src, req[p].dst>>

\* canonical lock order: the smaller identity first
LockOrder(p) ==
    IF req[p].src < req[p].dst THEN <<req[p].src, req[p].dst>>
    ELSE <<req[p].dst, req[p].src>>

FirstID(p) == LockOrder(p)[1]
SecondID(p) == LockOrder(p)[2]

\* the locked rows mapped back to source and destination
SourceBalance(p) ==
    IF FirstID(p) = req[p].src THEN firstAccount[p] ELSE secondAccount[p]
DestBalance(p) ==
    IF FirstID(p) = req[p].src THEN secondAccount[p] ELSE firstAccount[p]

\* variants of RowsByKey: an index that never matches, and a lookup that
\* treats the missing key as a value
RowsByKey_None(k) == {}
RowsByKey_NilMatches(k) == {r \in journal : r.key = k}

\* SELECT ... WHERE idempotency_key = $1 over the committed rows; a NULL
\* parameter matches no row
RowsByKey(k) == IF k = NoKey THEN {} ELSE {r \in journal : r.key = k}

\* variant: the lookup of Transfer finds nothing
GetTransactionByIDempotencyKey_Miss(k) == {}

\* GetTransactionByIDempotencyKey: the rows the lookup of Transfer scans
GetTransactionByIDempotencyKey(k) == RowsByKey(k)

\* an uncommitted entry of idx_transactions_idempotency_key held by
\* another unit of work
KeyInFlight(p, k) ==
    k # NoKey /\ \E q \in Procs : q # p /\ txRow[q].id # 0 /\ txRow[q].key = k

\* variant: the locked read takes a lock on the whole accounts table
CanLock_TableLock(p, a) == \A b \in Rows : lockOwner[b] \in {NoProc, p}

\* variant: SELECT without FOR UPDATE, the read never waits
CanLock_Always(p, a) == TRUE

\* SELECT ... FOR UPDATE can take the row lock
CanLock(p, a) == lockOwner[a] = NoProc

\* variant: the locked read never reports a missing row
NoRows_Never(a) == FALSE

\* scanAccount: the query returned sql.ErrNoRows
NoRows(a) == a \notin Rows \/ accounts[a] = Absent

\* variant: the error path ends the unit of work with tx.Commit()
Rollback_KeepWrites(p, code) ==
    /\ pc' = [pc EXCEPT ![p] = "idle"]
    /\ lockOwner' = [a \in Rows |->
                        IF lockOwner[a] = p THEN NoProc ELSE lockOwner[a]]
    /\ accounts' = [a \in Rows |->
                       IF a = req[p].src /\ wSrc[p] # Absent THEN wSrc[p]
                       ELSE IF a = req[p].dst /\ wDst[p] # Absent THEN wDst[p]
                       ELSE accounts[a]]
    /\ journal' = IF txRow[p].id # 0 THEN journal \cup {txRow[p]} ELSE journal
    /\ firstAccount' = [firstAccount EXCEPT ![p] = Absent]
    /\ secondAccount' = [secondAccount EXCEPT ![p] = Absent]
    /\ txRow' = [txRow EXCEPT ![p] = NoRow]
    /\ wSrc' = [wSrc EXCEPT ![p] = Absent]
    /\ wDst' = [wDst EXCEPT ![p] = Absent]
    /\ transaction' = [transaction EXCEPT ![p] = NoRow]
    /\ result' = [result EXCEPT ![p] = ErrResult(code)]
    /\ req' = [req EXCEPT ![p] = NoReq]
    /\ seen' = [seen EXCEPT ![p] = 0]
    /\ retry' = [retry EXCEPT ![p] = 0]
    /\ UNCHANGED <<nextId, calls, opening, applied, refused>>

\* variant: the error path returns without ending the unit of work, whose
\* row locks stay held
Rollback_KeepLocks(p, code) ==
    /\ pc' = [pc EXCEPT ![p] = "idle"]
    /\ firstAccount' = [firstAccount EXCEPT ![p] = Absent]
    /\ secondAccount' = [secondAccount EXCEPT ![p] = Absent]
    /\ txRow' = [txRow EXCEPT ![p] = NoRow]
    /\ wSrc' = [wSrc EXCEPT ![p] = Absent]
    /\ wDst' = [wDst EXCEPT ![p] = Absent]
    /\ transaction' = [transaction EXCEPT ![p] = NoRow]
    /\ result' = [result EXCEPT ![p] = ErrResult(code)]
    /\ req' = [req EXCEPT ![p] = NoReq]
    /\ seen' = [seen EXCEPT ![p] = 0]
    /\ retry' = [retry EXCEPT ![p] = 0]
    /\ UNCHANGED <<accounts, journal, lockOwner, nextId, calls, opening,
                   applied, refused>>

\* the end of the unit of work on the error path: tx.Rollback() discards
\* the writes and releases the row locks, Transfer returns (nil, err)
Rollback(p, code) ==
    /\ pc' = [pc EXCEPT ![p] = "idle"]
    /\ lockOwner' = [a \in Rows |->
                        IF lockOwner[a] = p THEN NoProc ELSE lockOwner[a]]
    /\ firstAccount' = [firstAccount EXCEPT ![p] = Absent]
    /\ secondAccount' = [secondAccount EXCEPT ![p] = Absent]
    /\ txRow' = [txRow EXCEPT ![p] = NoRow]
    /\ wSrc' = [wSrc EXCEPT ![p] = Absent]
    /\ wDst' = [wDst EXCEPT ![p] = Absent]
    /\ transaction' = [transaction EXCEPT ![p] = NoRow]
    /\ result' = [result EXCEPT ![p] = ErrResult(code)]
    /\ req' = [req EXCEPT ![p] = NoReq]
    /\ seen' = [seen EXCEPT ![p] = 0]
    /\ retry' = [retry EXCEPT ![p] = 0]
    /\ refused' = IF code = "insufficient_balance" /\ req[p].key # NoKey
                  THEN refused \cup {[key |-> req[p].key,
                                      id |-> transaction[p].id]}
                  ELSE refused
    /\ UNCHANGED <<accounts, journal, nextId, calls, opening, applied>>

(***************************************************************************)
(* AccountService.CreateAccount: one INSERT on the root handle.            *)
(***************************************************************************)
MaxInitialBalance == D(10, 0, 0)               \* decimal.NewFromInt(10_000_000_000)

\* variant: the ceiling itself is refused
CreateAccountError_CeilingExcluded(id, bal) ==
    IF IsNegative(bal) THEN "invalid_amount"
    ELSE IF ~LessThan(bal, MaxInitialBalance) THEN "invalid_amount"
    ELSE IF id <= 0 THEN "invalid_input"
    ELSE IF accounts[id] # Absent THEN "duplicate_account"
    ELSE "ok"

CreateAccountError(id, bal) ==
    IF IsNegative(bal) THEN "invalid_amount"
    ELSE IF GreaterThan(bal, MaxInitialBalance) THEN "invalid_amount"
    ELSE IF id <= 0 THEN "invalid_input"
    ELSE IF accounts[id] # Absent THEN "duplicate_account"
    ELSE "ok"

CreateAccount(id, bal) ==
    /\ CreateAccountError(id, bal) = "ok"
    /\ accounts' = [accounts EXCEPT ![id] = StoreNumeric(bal)]
    /\ opening' = [opening EXCEPT ![id] = StoreNumeric(bal)]
    /\ UNCHANGED <<journal, lockOwner, pc, req, firstAccount, secondAccount,
                   txRow, wSrc, wDst, transaction, result, nextId, calls, seen,
                   applied, refused, retry>>

(***************************************************************************)
(* TransactionService.Transfer, one action per statement.                  *)
(***************************************************************************)
\* entry: parse, validate, then Begin
TransferCall(p, s, d, amt, k) ==
    /\ pc[p] = "idle"
    /\ calls < MaxCalls
    /\ calls' = calls + 1
    /\ IF ValidateTransfer(s, d, amt) = "ok"
       THEN /\ pc' = [pc EXCEPT ![p] = "lookup"]
            /\ req' = [req EXCEPT ![p] =
                          [src |-> s, dst |-> d, amount |-> amt, key |-> k,
                           expired |-> FALSE, waiting |-> FALSE]]
            /\ seen' = [seen EXCEPT ![p] =
                           IF RowsByKey(k) = {} THEN 0
                           ELSE (CHOOSE r \in RowsByKey(k) : TRUE).id]
            /\ retry' = [retry EXCEPT ![p] =
                            IF \E f \in refused : f.key = k
                            THEN (CHOOSE f \in refused : f.key = k /\
                                     \A g \in refused :
                                         g.key = k => f.id <= g.id).id
                            ELSE 0]
            /\ result' = [result EXCEPT ![p] = NoResult]
       ELSE /\ pc' = pc
            /\ req' = req
            /\ seen' = seen
            /\ retry' = retry
            /\ result' = [result EXCEPT ![p] =
                             ErrResult(ValidateTransfer(s, d, amt))]
    /\ UNCHANGED <<accounts, journal, lockOwner, firstAccount, secondAccount,
                   txRow, wSrc, wDst, transaction, nextId, opening,
                   applied, refused>>

\* variant: a found transaction is kept, and the transfer goes on
Lookup_GoesOn(p) ==
    /\ pc[p] = "lookup"
    /\ IF GetTransactionByIDempotencyKey(req[p].key) # {}
       THEN transaction' = [transaction EXCEPT ![p] =
                CHOOSE r \in GetTransactionByIDempotencyKey(req[p].key) : TRUE]
       ELSE transaction' = transaction
    /\ pc' = [pc EXCEPT ![p] = "lock1"]
    /\ UNCHANGED <<accounts, journal, lockOwner, req, firstAccount,
                   secondAccount, txRow, wSrc, wDst, result, nextId, calls,
                   opening, seen, applied, refused, retry>>

\* variant: a found transaction is replayed only when it has the source,
\* destination and amount of the request
Lookup_SameRequestOnly(p) ==
    /\ pc[p] = "lookup"
    /\ IF \E r \in GetTransactionByIDempotencyKey(req[p].key) :
             r.src = req[p].src /\ r.dst = req[p].dst
                /\ r.amount = StoreNumeric(req[p].amount)
       THEN /\ transaction' = [transaction EXCEPT ![p] =
                   CHOOSE r \in GetTransactionByIDempotencyKey(req[p].key) : TRUE]
            /\ pc' = [pc EXCEPT ![p] = "commit"]
       ELSE /\ transaction' = transaction
            /\ pc' = [pc EXCEPT ![p] = "lock1"]
    /\ UNCHANGED <<accounts, journal, lockOwner, req, firstAccount,
                   secondAccount, txRow, wSrc, wDst, result, nextId, calls,
                   opening, seen, applied, refused, retry>>

\* idempotency lookup inside the unit of work
Lookup(p) ==
    /\ pc[p] = "lookup"
    /\ IF GetTransactionByIDempotencyKey(req[p].key) # {}
       THEN /\ transaction' = [transaction EXCEPT ![p] =
                   CHOOSE r \in GetTransactionByIDempotencyKey(req[p].key) : TRUE]
            /\ pc' = [pc EXCEPT ![p] = "commit"]
       ELSE /\ transaction' = transaction
            /\ pc' = [pc EXCEPT ![p] = "lock1"]
    /\ UNCHANGED <<accounts, journal, lockOwner, req, firstAccount,
                   secondAccount, txRow, wSrc, wDst, result, nextId, calls,
                   opening, seen, applied, refused, retry>>

\* GetAccountForUpdate(firstID)
LockFirst(p) ==
    /\ pc[p] = "lock1"
    /\ IF NoRows(FirstID(p))
       THEN Rollback(p, "account_not_found")
       ELSE /\ CanLock(p, FirstID(p))
            /\ lockOwner' = [lockOwner EXCEPT ![FirstID(p)] = p]
            /\ firstAccount' = [firstAccount EXCEPT ![p] = accounts[FirstID(p)]]
            /\ pc' = [pc EXCEPT ![p] = "lock2"]
            /\ UNCHANGED <<accounts, journal, req, secondAccount, txRow, wSrc,
                           wDst, transaction, result, nextId, calls, opening,
                           seen,
                   applied, refused, retry>>

\* variant: the second account is read without its lock
LockSecond_Unlocked(p) ==
    /\ pc[p] = "lock2"
    /\ IF NoRows(SecondID(p))
       THEN Rollback(p, "account_not_found")
       ELSE /\ secondAccount' = [secondAccount EXCEPT ![p] = accounts[SecondID(p)]]
            /\ pc' = [pc EXCEPT ![p] = "create"]
            /\ UNCHANGED <<accounts, journal, lockOwner, req, firstAccount,
                           txRow, wSrc, wDst, transaction, result, nextId,
                           calls, opening, seen, applied, refused, retry>>

\* GetAccountForUpdate(secondID)
LockSecond(p) ==
    /\ pc[p] = "lock2"
    /\ IF NoRows(SecondID(p))
       THEN Rollback(p, "account_not_found")
       ELSE /\ CanLock(p, SecondID(p))
            /\ lockOwner' = [lockOwner EXCEPT ![SecondID(p)] = p]
            /\ secondAccount' = [secondAccount EXCEPT ![p] = accounts[SecondID(p)]]
            /\ pc' = [pc EXCEPT ![p] = "create"]
            /\ UNCHANGED <<accounts, journal, req, firstAccount, txRow, wSrc,
                           wDst, transaction, result, nextId, calls, opening,
                           seen,
                   applied, refused, retry>>

\* variant: idx_transactions_idempotency_key is not unique
KeyIsFree_Always(k) == TRUE

\* the unique index admits the key of the new row
KeyIsFree(k) == RowsByKey(k) = {}

\* CreateTransaction: INSERT of the pending row
CreateTransaction(p) ==
    /\ pc[p] = "create"
    /\ ~KeyInFlight(p, req[p].key)
    /\ IF ~KeyIsFree(req[p].key)
       THEN Rollback(p, "duplicate_transaction")
       ELSE /\ txRow' = [txRow EXCEPT ![p] =
                   [id |-> nextId, src |-> req[p].src, dst |-> req[p].dst,
                    amount |-> StoreNumeric(req[p].amount), key |-> req[p].key,
                    status |-> "pending"]]
            /\ transaction' = [transaction EXCEPT ![p] =
                   [id |-> nextId, src |-> req[p].src, dst |-> req[p].dst,
                    amount |-> req[p].amount, key |-> req[p].key,
                    status |-> "pending"]]
            /\ nextId' = nextId + 1
            /\ pc' = [pc EXCEPT ![p] = "check"]
            /\ UNCHANGED <<accounts, journal, lockOwner, req, firstAccount,
                           secondAccount, wSrc, wDst, result, calls, opening,
                           seen,
                   applied, refused, retry>>

\* variant: the funds check reads the destination row
Insufficient_Dest(p) == LessThan(DestBalance(p), req[p].amount)

\* sourceAccount.Balance.LessThan(req.Amount)
Insufficient(p) == LessThan(SourceBalance(p), req[p].amount)

CheckBalance(p) ==
    /\ pc[p] = "check"
    /\ IF Insufficient(p)
       THEN /\ transaction' = [transaction EXCEPT ![p].status = "failed"]
            /\ pc' = [pc EXCEPT ![p] = "markFailed"]
       ELSE /\ transaction' = transaction
            /\ pc' = [pc EXCEPT ![p] = "updSrc"]
    /\ UNCHANGED <<accounts, journal, lockOwner, req, firstAccount,
                   secondAccount, txRow, wSrc, wDst, result, nextId, calls,
                   opening, seen,
                   applied, refused, retry>>

\* UpdateTransactionStatus(id, "failed"), then return ErrInsufficientBalance:
\* fn returned an error, so WithTransaction rolls the unit of work back
MarkFailed(p) ==
    /\ pc[p] = "markFailed"
    /\ Rollback(p, "insufficient_balance")

NewSourceBalance(p) == Sub(SourceBalance(p), req[p].amount)
NewDestBalance(p) == Add(DestBalance(p), req[p].amount)

\* UpdateAccountBalance(sourceID, newSourceBalance)
UpdateSourceBalance(p) ==
    /\ pc[p] = "updSrc"
    /\ IF ~BalanceCheck(StoreNumeric(NewSourceBalance(p)))
       THEN Rollback(p, "internal_error")
       ELSE /\ wSrc' = [wSrc EXCEPT ![p] = StoreNumeric(NewSourceBalance(p))]
            /\ pc' = [pc EXCEPT ![p] = "updDst"]
            /\ UNCHANGED <<accounts, journal, lockOwner, req, firstAccount,
                           secondAccount, txRow, wDst, transaction, result,
                           nextId, calls, opening, seen,
                   applied, refused, retry>>

\* UpdateAccountBalance(destID, newDestBalance)
UpdateDestBalance(p) ==
    /\ pc[p] = "updDst"
    /\ IF ~BalanceCheck(StoreNumeric(NewDestBalance(p)))
       THEN Rollback(p, "internal_error")
       ELSE /\ wDst' = [wDst EXCEPT ![p] = StoreNumeric(NewDestBalance(p))]
            /\ pc' = [pc EXCEPT ![p] = "updStatus"]
            /\ UNCHANGED <<accounts, journal, lockOwner, req, firstAccount,
                           secondAccount, txRow, wSrc, transaction, result,
                           nextId, calls, opening, seen,
                   applied, refused, retry>>

\* variant: the status update is left out
MarkCompleted_StaysPending(p) ==
    /\ pc[p] = "updStatus"
    /\ pc' = [pc EXCEPT ![p] = "commit"]
    /\ UNCHANGED <<accounts, journal, lockOwner, req, firstAccount,
                   secondAccount, txRow, wSrc, wDst, transaction, result,
                   nextId, calls, opening, seen, applied, refused, retry>>

\* UpdateTransactionStatus(id, "completed")
MarkCompleted(p) ==
    /\ pc[p] = "updStatus"
    /\ transaction' = [transaction EXCEPT ![p].status = "completed"]
    /\ txRow' = [txRow EXCEPT ![p].status = "completed"]
    /\ pc' = [pc EXCEPT ![p] = "commit"]
    /\ UNCHANGED <<accounts, journal, lockOwner, req, firstAccount,
                   secondAccount, wSrc, wDst, result, nextId, calls, opening,
                   seen,
                   applied, refused, retry>>

\* variant: the commit makes only the source write durable
CommittedAccounts_SourceOnly(p) ==
    [a \in Rows |->
        IF a = req[p].src /\ wSrc[p] # Absent THEN wSrc[p] ELSE accounts[a]]

\* the accounts table after the unit of work of p commits
CommittedAccounts(p) ==
    [a \in Rows |->
        IF a = req[p].src /\ wSrc[p] # Absent THEN wSrc[p]
        ELSE IF a = req[p].dst /\ wDst[p] # Absent THEN wDst[p]
        ELSE accounts[a]]

\* tx.Commit(), then Transfer returns (transaction, nil)
Commit(p) ==
    /\ pc[p] = "commit"
    /\ accounts' = CommittedAccounts(p)
    /\ journal' = IF txRow[p].id # 0 THEN journal \cup {txRow[p]} ELSE journal
    /\ result' = [result EXCEPT ![p] = TxResult(transaction[p])]
    /\ pc' = [pc EXCEPT ![p] = "idle"]
    /\ lockOwner' = [a \in Rows |->
                        IF lockOwner[a] = p THEN NoProc ELSE lockOwner[a]]
    /\ firstAccount' = [firstAccount EXCEPT ![p] = Absent]
    /\ secondAccount' = [secondAccount EXCEPT ![p] = Absent]
    /\ txRow' = [txRow EXCEPT ![p] = NoRow]
    /\ wSrc' = [wSrc EXCEPT ![p] = Absent]
    /\ wDst' = [wDst EXCEPT ![p] = Absent]
    /\ transaction' = [transaction EXCEPT ![p] = NoRow]
    /\ req' = [req EXCEPT ![p] = NoReq]
    /\ seen' = [seen EXCEPT ![p] = 0]
    /\ applied' = IF wSrc[p] # Absent \/ wDst[p] # Absent
                  THEN applied \cup {[id |-> transaction[p].id, src |-> req[p].src,
                                      dst |-> req[p].dst, amount |-> req[p].amount,
                                      key |-> req[p].key]}
                  ELSE applied
    /\ retry' = [retry EXCEPT ![p] = 0]
    /\ UNCHANGED <<nextId, calls, opening, refused>>

\* variant: the error of the failing operation is dropped and Transfer
\* returns the transaction value it holds
StorageFailure_Swallowed(p) ==
    /\ pc[p] # "idle"
    /\ pc' = [pc EXCEPT ![p] = "idle"]
    /\ lockOwner' = [a \in Rows |->
                        IF lockOwner[a] = p THEN NoProc ELSE lockOwner[a]]
    /\ firstAccount' = [firstAccount EXCEPT ![p] = Absent]
    /\ secondAccount' = [secondAccount EXCEPT ![p] = Absent]
    /\ txRow' = [txRow EXCEPT ![p] = NoRow]
    /\ wSrc' = [wSrc EXCEPT ![p] = Absent]
    /\ wDst' = [wDst EXCEPT ![p] = Absent]
    /\ transaction' = [transaction EXCEPT ![p] = NoRow]
    /\ result' = [result EXCEPT ![p] = TxResult(transaction[p])]
    /\ req' = [req EXCEPT ![p] = NoReq]
    /\ seen' = [seen EXCEPT ![p] = 0]
    /\ retry' = [retry EXCEPT ![p] = 0]
    /\ UNCHANGED <<accounts, journal, nextId, calls, opening, applied,
                   refused>>

\* a storage operation of the unit of work (Begin, a statement, Commit)
\* fails: connection loss, lock timeout, a deadlock reported by the engine
StorageFailure(p) ==
    /\ pc[p] # "idle"
    /\ Rollback(p, "internal_error")

Next ==
    \/ \E id \in AcctIds, bal \in InitialBalances : CreateAccount(id, bal)
    \/ \E p \in Procs, s \in ReqIds, d \in ReqIds, amt \in Amounts,
          k \in Keys \cup {NoKey} : TransferCall(p, s, d, amt, k)
    \/ \E p \in Procs : Lookup(p)
    \/ \E p \in Procs : LockFirst(p)
    \/ \E p \in Procs : LockSecond(p)
    \/ \E p \in Procs : CreateTransaction(p)
    \/ \E p \in Procs : CheckBalance(p)
    \/ \E p \in Procs : MarkFailed(p)
    \/ \E p \in Procs : UpdateSourceBalance(p)
    \/ \E p \in Procs : UpdateDestBalance(p)
    \/ \E p \in Procs : MarkCompleted(p)
    \/ \E p \in Procs : Commit(p)
    \/ \E p \in Procs : StorageFailure(p)

Spec == Init /\ [][Next]_vars

\* AccountService.GetAccount, for a parsed identity: a plain read of the
\* committed row
GetAccount(id) ==
    IF id <= 0 THEN ErrResult("invalid_input")
    ELSE IF NoRows(id) THEN ErrResult("account_not_found")
    ELSE [kind |-> "account", id |-> id, balance |-> accounts[id]]

(***************************************************************************)
(* The account endpoints as a caller sees them.  AccountService validates  *)
(* without touching storage and then runs one statement on the root        *)
(* handle, which PostgreSQL executes atomically; fail says that this       *)
(* statement ends with a connection or server error.                       *)
(***************************************************************************)
\* the account_id path variable, as a sequence of characters
IdStrings == { <<"1">>, <<"2">>, <<"+", "1">>, <<"0", "1">>, <<"1", "0">>,
               <<"0">>, <<"-", "1">>, <<"a">>, <<"1", "a">>, <<"-">>, <<>> }

DigitValue(c) == CASE c = "0" -> 0 [] c = "1" -> 1 [] c = "2" -> 2 [] OTHER -> -1

\* the decimal value of a run of digits, or -1 if a character is no digit
RECURSIVE ParseDigits(_, _)
ParseDigits(str, acc) ==
    IF str = <<>> THEN acc
    ELSE IF DigitValue(Head(str)) < 0 THEN -1
    ELSE ParseDigits(Tail(str), acc * 10 + DigitValue(Head(str)))

\* strconv.ParseInt(str, 10, 64): an optional sign, then one digit or more
ParseInt(str) ==
    IF str = <<>> THEN [ok |-> FALSE, n |-> 0]
    ELSE LET body == IF Head(str) \in {"-", "+"} THEN Tail(str) ELSE str
             v == IF body = <<>> THEN -1 ELSE ParseDigits(body, 0)
         IN  IF v < 0 THEN [ok |-> FALSE, n |-> 0]
             ELSE [ok |-> TRUE, n |-> IF Head(str) = "-" THEN 0 - v ELSE v]

\* variant: the row is read before the identity is checked
GetAccountResponse_ReadFirst(str, fail) ==
    IF fail THEN ErrResult("internal_error")
    ELSE IF ~ParseInt(str).ok \/ ParseInt(str).n <= 0
    THEN ErrResult("invalid_input")
    ELSE GetAccount(ParseInt(str).n)

\* AccountService.GetAccount as the handler answers it
GetAccountResponse(str, fail) ==
    IF ~ParseInt(str).ok \/ ParseInt(str).n <= 0 THEN ErrResult("invalid_input")
    ELSE IF fail THEN ErrResult("internal_error")
    ELSE GetAccount(ParseInt(str).n)

GetAccountRequest(p, str, fail) ==
    /\ pc[p] = "idle"
    /\ calls < MaxCalls
    /\ calls' = calls + 1
    /\ result' = [result EXCEPT ![p] = GetAccountResponse(str, fail)]
    /\ UNCHANGED <<accounts, journal, lockOwner, pc, req, firstAccount,
                   secondAccount, txRow, wSrc, wDst, transaction, nextId,
                   opening, seen, applied, refused, retry>>

\* variant: the insert replaces an existing row
CreateAccountResponse_Upsert(id, bal, fail) ==
    IF CreateAccountError(id, bal) \in {"invalid_amount", "invalid_input"}
    THEN ErrResult(CreateAccountError(id, bal))
    ELSE IF fail THEN ErrResult("internal_error")
    ELSE [kind |-> "account", id |-> id, balance |-> bal]

\* AccountService.CreateAccount as the handler answers it: the account as
\* given, or the error
CreateAccountResponse(id, bal, fail) ==
    IF CreateAccountError(id, bal) \in {"invalid_amount", "invalid_input"}
    THEN ErrResult(CreateAccountError(id, bal))
    ELSE IF fail THEN ErrResult("internal_error")
    ELSE IF CreateAccountError(id, bal) = "duplicate_account"
    THEN ErrResult("duplicate_account")
    ELSE [kind |-> "account", id |-> id, balance |-> bal]

CreateAccountRequest(p, id, bal, fail) ==
    /\ pc[p] = "idle"
    /\ calls < MaxCalls
    /\ calls' = calls + 1
    /\ result' = [result EXCEPT ![p] = CreateAccountResponse(id, bal, fail)]
    /\ IF CreateAccountResponse(id, bal, fail).kind = "account"
       THEN /\ accounts' = [accounts EXCEPT ![id] = StoreNumeric(bal)]
            /\ opening' = [opening EXCEPT ![id] = StoreNumeric(bal)]
       ELSE UNCHANGED <<accounts, opening>>
    /\ UNCHANGED <<journal, lockOwner, pc, req, firstAccount, secondAccount,
                   txRow, wSrc, wDst, transaction, nextId, seen,
                   applied, refused, retry>>

\* variant: insufficient funds answer as a bad request
HTTPStatus_Insufficient400(code) ==
    CASE code \in {"invalid_input", "invalid_amount", "same_account_transfer",
                   "insufficient_balance"} -> 400
      [] code = "account_not_found" -> 404
      [] code \in {"duplicate_account", "duplicate_transaction"} -> 409
      [] OTHER -> 500

\* AppError.HTTPStatus
HTTPStatus(code) ==
    CASE code \in {"invalid_input", "invalid_amount", "same_account_transfer"}
            -> 400
      [] code = "account_not_found" -> 404
      [] code = "insufficient_balance" -> 422
      [] code \in {"duplicate_account", "duplicate_transaction"} -> 409
      [] OTHER -> 500

\* the status line TransactionHandler.Transfer writes for what the service
\* returned: writeError, or writeJSON with http.StatusCreated
TransferStatus(res) ==
    IF res.kind = "err" THEN HTTPStatus(res.code) ELSE 201

\* the statements of Transfer that caller p runs by itself, without the
\* storage layer failing
Step(p) ==
    \/ Lookup(p)
    \/ LockFirst(p)
    \/ LockSecond(p)
    \/ CreateTransaction(p)
    \/ CheckBalance(p)
    \/ MarkFailed(p)
    \/ UpdateSourceBalance(p)
    \/ UpdateDestBalance(p)
    \/ MarkCompleted(p)
    \/ Commit(p)

\* every call runs on a goroutine of its own and the database serves every
\* session: a call whose next statement can run does run it.  Nothing is
\* assumed about storage failures.
Fairness == \A p \in Procs : WF_vars(Step(p))

\* the service with every account already created: transfers only
FundedBalances == [a \in Rows |->
                      IF a \notin AcctIds THEN Absent
                      ELSE IF a = 1 THEN D(0, 1000, 500000000)   \* 1000.50
                      ELSE D(0, 0, 30000000)]                    \* 0.03

FundedInit ==
    /\ accounts = FundedBalances
    /\ opening = FundedBalances
    /\ journal = {}
    /\ lockOwner = [a \in Rows |-> NoProc]
    /\ pc = [p \in Procs |-> "idle"]
    /\ req = [p \in Procs |-> NoReq]
    /\ firstAccount = [p \in Procs |-> Absent]
    /\ secondAccount = [p \in Procs |-> Absent]
    /\ txRow = [p \in Procs |-> NoRow]
    /\ wSrc = [p \in Procs |-> Absent]
    /\ wDst = [p \in Procs |-> Absent]
    /\ transaction = [p \in Procs |-> NoRow]
    /\ result = [p \in Procs |-> NoResult]
    /\ nextId = 1
    /\ calls = 0
    /\ seen = [p \in Procs |-> 0]
    /\ applied = {}
    /\ refused = {}
    /\ retry = [p \in Procs |-> 0]

TransferNext ==
    \/ \E p \in Procs, s \in ReqIds, d \in ReqIds, amt \in Amounts,
          k \in Keys \cup {NoKey} : TransferCall(p, s, d, amt, k)
    \/ \E p \in Procs : Step(p)
    \/ \E p \in Procs : StorageFailure(p)

FairSpec == FundedInit /\ [][TransferNext]_vars /\ Fairness

(***************************************************************************)
(* Transfers that may name an account that was never created, with two     *)
(* amounts, so that a call can carry a used key with another request.      *)
(***************************************************************************)
ReplayIds == 1..(MaxAcct + 1)

ReplayAmounts == { D(0, 200, 500000000),     \* 200.50
                   D(0, 0, 15000000) }       \* 0.015

ReplayNext ==
    \/ \E p \in Procs, s \in ReplayIds, d \in ReplayIds, amt \in ReplayAmounts,
          k \in Keys \cup {NoKey} : TransferCall(p, s, d, amt, k)
    \/ \E p \in Procs : Step(p)
    \/ \E p \in Procs : StorageFailure(p)

ReplaySpec == FundedInit /\ [][ReplayNext]_vars

(***************************************************************************)
(* Transfer as the handler calls it: the two identities arrive as strings  *)
(* and are parsed first.                                                   *)
(***************************************************************************)
\* parseAccountIDs: source, then destination
ParseAccountIDs(ss, ds) ==
    IF ~ParseInt(ss).ok \/ ParseInt(ss).n <= 0
    THEN [ok |-> FALSE, src |-> 0, dst |-> 0]
    ELSE IF ~ParseInt(ds).ok \/ ParseInt(ds).n <= 0
    THEN [ok |-> FALSE, src |-> 0, dst |-> 0]
    ELSE [ok |-> TRUE, src |-> ParseInt(ss).n, dst |-> ParseInt(ds).n]

\* variant: a call whose key has a committed transaction gets that
\* transaction before its inputs are looked at
TransferRequest_ReplayFirst(p, ss, ds, amt, k) ==
    IF RowsByKey(k) # {}
    THEN /\ pc[p] = "idle"
         /\ calls < MaxCalls
         /\ calls' = calls + 1
         /\ result' = [result EXCEPT ![p] =
                          TxResult(CHOOSE r \in RowsByKey(k) : TRUE)]
         /\ UNCHANGED <<accounts, journal, lockOwner, pc, req, firstAccount,
                        secondAccount, txRow, wSrc, wDst, transaction, nextId,
                        opening, seen, applied, refused, retry>>
    ELSE IF ~ParseAccountIDs(ss, ds).ok
    THEN /\ pc[p] = "idle"
         /\ calls < MaxCalls
         /\ calls' = calls + 1
         /\ result' = [result EXCEPT ![p] = ErrResult("invalid_input")]
         /\ UNCHANGED <<accounts, journal, lockOwner, pc, req, firstAccount,
                        secondAccount, txRow, wSrc, wDst, transaction, nextId,
                        opening, seen, applied, refused, retry>>
    ELSE TransferCall(p, ParseAccountIDs(ss, ds).src,
                      ParseAccountIDs(ss, ds).dst, amt, k)

\* Transfer: parseAccountIDs, then validateTransfer, then the unit of work
TransferRequest(p, ss, ds, amt, k) ==
    IF ~ParseAccountIDs(ss, ds).ok
    THEN /\ pc[p] = "idle"
         /\ calls < MaxCalls
         /\ calls' = calls + 1
         /\ result' = [result EXCEPT ![p] = ErrResult("invalid_input")]
         /\ UNCHANGED <<accounts, journal, lockOwner, pc, req, firstAccount,
                        secondAccount, txRow, wSrc, wDst, transaction, nextId,
                        opening, seen, applied, refused, retry>>
    ELSE TransferCall(p, ParseAccountIDs(ss, ds).src,
                      ParseAccountIDs(ss, ds).dst, amt, k)

RequestStrings == { <<"1">>, <<"2">>, <<"0">>, <<"a">> }

RequestAmounts == { D(0, 200, 500000000),     \* 200.50
                    Zero,                     \* 0
                    D(1, 0, 1) }              \* 1000000000.000000001

RequestNext ==
    \/ \E p \in Procs, ss \in RequestStrings, ds \in RequestStrings,
          amt \in RequestAmounts, k \in Keys \cup {NoKey} :
          TransferRequest(p, ss, ds, amt, k)
    \/ \E p \in Procs : Step(p)
    \/ \E p \in Procs : StorageFailure(p)

RequestSpec == FundedInit /\ [][RequestNext]_vars

(***************************************************************************)
(* An unexpected fault inside the unit of work: fn panics.  The deferred   *)
(* function of Store.WithTransaction recovers, calls tx.Rollback() and     *)
(* panics again with the same value.                                       *)
(***************************************************************************)
PanicResult == [kind |-> "panic", id |-> 0, status |-> "none", code |-> "none"]

\* variant: no deferred recover, the panic leaves the unit of work open
Panic_NoRecover(p) ==
    /\ pc[p] \notin {"idle", "commit"}
    /\ pc' = [pc EXCEPT ![p] = "idle"]
    /\ result' = [result EXCEPT ![p] = PanicResult]
    /\ transaction' = [transaction EXCEPT ![p] = NoRow]
    /\ req' = [req EXCEPT ![p] = NoReq]
    /\ seen' = [seen EXCEPT ![p] = 0]
    /\ retry' = [retry EXCEPT ![p] = 0]
    /\ UNCHANGED <<accounts, journal, lockOwner, firstAccount, secondAccount,
                   txRow, wSrc, wDst, nextId, calls, opening, applied,
                   refused>>

\* fn panics at the statement p is at
Panic(p) ==
    /\ pc[p] \notin {"idle", "commit"}
    /\ pc' = [pc EXCEPT ![p] = "idle"]
    /\ lockOwner' = [a \in Rows |->
                        IF lockOwner[a] = p THEN NoProc ELSE lockOwner[a]]
    /\ firstAccount' = [firstAccount EXCEPT ![p] = Absent]
    /\ secondAccount' = [secondAccount EXCEPT ![p] = Absent]
    /\ txRow' = [txRow EXCEPT ![p] = NoRow]
    /\ wSrc' = [wSrc EXCEPT ![p] = Absent]
    /\ wDst' = [wDst EXCEPT ![p] = Absent]
    /\ transaction' = [transaction EXCEPT ![p] = NoRow]
    /\ result' = [result EXCEPT ![p] = PanicResult]
    /\ req' = [req EXCEPT ![p] = NoReq]
    /\ seen' = [seen EXCEPT ![p] = 0]
    /\ retry' = [retry EXCEPT ![p] = 0]
    /\ UNCHANGED <<accounts, journal, nextId, calls, opening, applied,
                   refused>>

PanicNext ==
    \/ TransferNext
    \/ \E p \in Procs : Panic(p)

PanicSpec == FundedInit /\ [][PanicNext]_vars

(***************************************************************************)
(* A unit of work opened from a handle that is already inside one.  The    *)
(* handle fn receives wraps the sql.Tx (executor *TxWrapper); for it the   *)
(* type assertion at the top of Store.WithTransaction fails and the call   *)
(* returns before db.Begin() and before fn.  result[p] holds the value     *)
(* last returned to caller p's code.                                       *)
(***************************************************************************)
Executor(p) == IF pc[p] = "idle" THEN "sql.DB" ELSE "TxWrapper"

ErrCannotBeginTransaction == ErrResult("cannot_begin_transaction")

\* variant: the failed attempt ends the enclosing unit of work
NestedWithTransaction_RollsBack(p) ==
    /\ pc[p] \notin {"idle", "commit"}
    /\ Executor(p) # "sql.DB"
    /\ Rollback(p, "cannot_begin_transaction")

NestedWithTransaction(p) ==
    /\ pc[p] \notin {"idle", "commit"}
    /\ Executor(p) # "sql.DB"
    /\ result' = [result EXCEPT ![p] = ErrCannotBeginTransaction]
    /\ UNCHANGED <<accounts, journal, lockOwner, pc, req, firstAccount,
                   secondAccount, txRow, wSrc, wDst, transaction, nextId,
                   calls, opening, seen, applied, refused, retry>>

NestedNext ==
    \/ TransferNext
    \/ \E p \in Procs : NestedWithTransaction(p)

NestedSpec == FundedInit /\ [][NestedNext]_vars

(***************************************************************************)
(* Callers with a deadline.  The deadline of a call is carried by the      *)
(* context of its HTTP request; TransactionHandler.Transfer hands the      *)
(* service the decoded body only, and Store.WithTransaction and the        *)
(* repositories use db.Begin(), QueryRow and Exec without a context.       *)
(***************************************************************************)
\* the locked read p is at waits for a row lock another session holds
LockWait(p) ==
    \/ pc[p] = "lock1" /\ ~NoRows(FirstID(p)) /\ ~CanLock(p, FirstID(p))
    \/ pc[p] = "lock2" /\ ~NoRows(SecondID(p)) /\ ~CanLock(p, SecondID(p))

\* the deadline of the open call of p passes: no statement observes it
\* (waiting records whether the call was waiting for a lock at that time)
DeadlinePasses(p) ==
    /\ pc[p] # "idle"
    /\ ~req[p].expired
    /\ req' = [req EXCEPT ![p].expired = TRUE, ![p].waiting = LockWait(p)]
    /\ UNCHANGED <<accounts, journal, lockOwner, pc, firstAccount,
                   secondAccount, txRow, wSrc, wDst, transaction, result,
                   nextId, calls, opening, seen, applied, refused, retry>>

DeadlineNext ==
    \/ TransferNext
    \/ \E p \in Procs : DeadlinePasses(p)

DeadlineSpec == FundedInit /\ [][DeadlineNext]_vars /\ Fairness

(***************************************************************************)
(* The service at the limits of its inputs: creations with the smallest    *)
(* and the largest admitted balance and one with nine fractional digits,   *)
(* transfers with amounts at, just inside and just outside the limits.     *)
(***************************************************************************)
EntryBalances == { Zero,                        \* 0
                   D(0, 0, 15000005),           \* 0.015000005
                   MaxInitialBalance }          \* 10000000000

EntryAmounts == { MinAmount,                                \* 0.01
                  MaxAmount,                                \* 1000000000
                  D(0, 0, 9999999),                         \* 0.009999999
                  D(1, 0, 1),                               \* 1000000000.000000001
                  Zero,                                     \* 0
                  [D(0, 0, 10000000) EXCEPT !.neg = TRUE] } \* -0.01

EntryNext ==
    \/ \E id \in AcctIds, bal \in EntryBalances : CreateAccount(id, bal)
    \/ \E p \in Procs, s \in ReqIds, d \in ReqIds, amt \in EntryAmounts,
          k \in Keys \cup {NoKey} : TransferCall(p, s, d, amt, k)
    \/ \E p \in Procs : Step(p)
    \/ \E p \in Procs : StorageFailure(p)

EntrySpec == Init /\ [][EntryNext]_vars

(***************************************************************************)
(* The account endpoints and the transfers together.                       *)
(***************************************************************************)
CreateIds == -1..MaxAcct

AccountBalances == { D(0, 1000, 500000000),                   \* 1000.50
                     D(0, 0, 30000000),                        \* 0.03
                     D(10, 0, 0),                              \* the ceiling
                     D(10, 0, 1),                              \* ceiling + 1e-9
                     [D(0, 0, 10000000) EXCEPT !.neg = TRUE] } \* -0.01

AccountAmounts == { D(0, 200, 500000000) }                    \* 200.50

AccountNext ==
    \/ \E id \in AcctIds, bal \in AccountBalances : CreateAccount(id, bal)
    \/ \E p \in Procs, id \in CreateIds, bal \in AccountBalances,
          fail \in BOOLEAN : CreateAccountRequest(p, id, bal, fail)
    \/ \E p \in Procs, str \in IdStrings, fail \in BOOLEAN :
          GetAccountRequest(p, str, fail)
    \/ \E p \in Procs, s \in ReqIds, d \in ReqIds, amt \in AccountAmounts,
          k \in Keys \cup {NoKey} : TransferCall(p, s, d, amt, k)
    \/ \E p \in Procs : Step(p)
    \/ \E p \in Procs : StorageFailure(p)

AccountSpec == Init /\ [][AccountNext]_vars

(***************************************************************************)
(* Concurrent transfers over disjoint account pairs: caller p transfers    *)
(* between the accounts 2p-1 and 2p only, and no key is used by two        *)
(* callers.  Every account exists from the start.                          *)
(***************************************************************************)
PairOf(p) == {2 * p - 1, 2 * p}

KeysOf(p) == {k \in Keys : k = p} \cup {NoKey}

DisjointBalances == [a \in Rows |->
                        IF a > 2 * MaxProcs THEN Absent
                        ELSE IF a % 2 = 1 THEN D(0, 1000, 500000000) \* 1000.50
                        ELSE D(0, 0, 30000000)]                      \* 0.03

DisjointInit ==
    /\ accounts = DisjointBalances
    /\ opening = DisjointBalances
    /\ journal = {}
    /\ lockOwner = [a \in Rows |-> NoProc]
    /\ pc = [p \in Procs |-> "idle"]
    /\ req = [p \in Procs |-> NoReq]
    /\ firstAccount = [p \in Procs |-> Absent]
    /\ secondAccount = [p \in Procs |-> Absent]
    /\ txRow = [p \in Procs |-> NoRow]
    /\ wSrc = [p \in Procs |-> Absent]
    /\ wDst = [p \in Procs |-> Absent]
    /\ transaction = [p \in Procs |-> NoRow]
    /\ result = [p \in Procs |-> NoResult]
    /\ nextId = 1
    /\ calls = 0
    /\ seen = [p \in Procs |-> 0]
    /\ applied = {}
    /\ refused = {}
    /\ retry = [p \in Procs |-> 0]

DisjointNext ==
    \/ \E p \in Procs : \E s \in PairOf(p), d \in PairOf(p), amt \in Amounts,
          k \in KeysOf(p) : TransferCall(p, s, d, amt, k)
    \/ \E p \in Procs : Step(p)
    \/ \E p \in Procs : StorageFailure(p)

DisjointSpec == DisjointInit /\ [][DisjointNext]_vars

(***************************************************************************)
(* Vocabulary of the properties.                                           *)
(***************************************************************************)
Existing == {a \in Rows : accounts[a] # Absent}

Completed(rows) == {r \in rows : r.status = "completed"}

RECURSIVE SumAmounts(_)
SumAmounts(rows) ==
    IF rows = {} THEN Zero
    ELSE LET r == CHOOSE x \in rows : TRUE
         IN  Add(r.amount, SumAmounts(rows \ {r}))

RECURSIVE SumBalances(_, _)
SumBalances(tbl, ids) ==
    IF ids = {} THEN Zero
    ELSE LET a == CHOOSE x \in ids : TRUE
         IN  Add(tbl[a], SumBalances(tbl, ids \ {a}))

Credits(a) == SumAmounts({r \in Completed(journal) : r.dst = a})
Debits(a) == SumAmounts({r \in Completed(journal) : r.src = a})

\* the call of p ends in this step
Returns(p) == pc[p] # "idle" /\ pc'[p] = "idle"

\* the call of p ends in this step by committing the row it inserted
CommitsOwnRow(p) ==
    pc[p] = "commit" /\ txRow[p].id # 0 /\ Returns(p) /\ result'[p].kind = "tx"

\* the call of p was cut short by a failing storage operation
Aborted(p) == result'[p] = ErrResult("internal_error")

(***************************************************************************)
(* C1.  A transfer that returns a completed transaction of amount a from   *)
(* source A (balance x when locked) to destination B (balance y) leaves    *)
(* A.balance = x - a and B.balance = y + a, for both orders of the two     *)
(* identities, returns status completed, and changes no other balance.     *)
(* Violated by the code: the accounts table keeps 8 fractional digits and  *)
(* validateTransfer admits amounts with more (see C37).                    *)
(***************************************************************************)
C1_ExactDebitCredit ==
    [][\A p \in Procs : CommitsOwnRow(p) =>
          /\ result'[p].status = "completed"
          /\ accounts'[req[p].src] = Sub(SourceBalance(p), req[p].amount)
          /\ accounts'[req[p].dst] = Add(DestBalance(p), req[p].amount)
          /\ \A a \in AcctIds \ {req[p].src, req[p].dst} :
                accounts'[a] = accounts[a]]_vars

\* what the code does guarantee: the same, up to the rounding of the column
C1_StoredDebitCredit ==
    [][\A p \in Procs : CommitsOwnRow(p) =>
          /\ result'[p].status = "completed"
          /\ SourceBalance(p) = accounts[req[p].src]
          /\ DestBalance(p) = accounts[req[p].dst]
          /\ accounts'[req[p].src] =
                StoreNumeric(Sub(SourceBalance(p), req[p].amount))
          /\ accounts'[req[p].dst] =
                StoreNumeric(Add(DestBalance(p), req[p].amount))
          /\ \A a \in AcctIds \ {req[p].src, req[p].dst} :
                accounts'[a] = accounts[a]]_vars

(***************************************************************************)
(* C2.  Every committed balance is >= 0, and two transfers out of the same *)
(* source whose amounts together exceed its balance never both complete.   *)
(* The first half holds; the second is violated through the rounding of    *)
(* C37: out of 0.03, 0.015000005 and 0.015 both complete.                  *)
(***************************************************************************)
NonNegativeBalances == \A a \in Existing : ~LessThan(accounts[a], Zero)

\* no completed transfer has credited a
NeverCredited(a) == \A t \in applied : t.dst # a

NoJointOverdraft ==
    \A t1 \in applied : \A t2 \in applied :
        (t1.id # t2.id /\ t1.src = t2.src /\ NeverCredited(t1.src))
            => ~GreaterThan(Add(t1.amount, t2.amount), opening[t1.src])

C2_NonNegativeNoOverdraft == NonNegativeBalances /\ NoJointOverdraft

(***************************************************************************)
(* C3.  No lost update: every balance equals the balance the account was   *)
(* created with, plus the amounts of the committed completed transactions  *)
(* crediting it, minus those debiting it.  Violated through C37: the       *)
(* journal keeps the amount rounded, the balance the rounded difference.   *)
(***************************************************************************)
C3_BalanceEqualsLedger ==
    \A a \in Existing :
        Add(accounts[a], Debits(a)) = Add(opening[a], Credits(a))

(***************************************************************************)
(* C4.  The sum of all balances changes only when an account is created.   *)
(* Violated through C37: debit and credit are rounded separately.          *)
(***************************************************************************)
C4_TotalConserved ==
    [][Existing' = Existing =>
          SumBalances(accounts', Existing) = SumBalances(accounts, Existing)]_vars

(***************************************************************************)
(* C5.  Sequential replay: once a transfer carrying key K has committed as *)
(* completed, a later call carrying K that enters the unit of work returns *)
(* that transaction (same identity, status completed) and changes neither  *)
(* a balance nor the journal; the only other way it can end is a failing   *)
(* storage operation, which changes nothing either.                        *)
(***************************************************************************)
C5_SequentialReplay ==
    [][\A p \in Procs : (Returns(p) /\ seen[p] # 0) =>
          /\ accounts' = accounts
          /\ journal' = journal
          /\ applied' = applied
          /\ \/ Aborted(p)
             \/ \E r \in journal : /\ r.id = seen[p]
                                   /\ r.status = "completed"
                                   /\ result'[p] = TxResult(r)]_vars

\* two callers hold the same completed transaction and one debit was applied
C5_Witness ==
    \E p \in Procs : \E q \in Procs :
        /\ p # q
        /\ result[p].kind = "tx" /\ result[p].status = "completed"
        /\ result[q] = result[p]
        /\ Cardinality(applied) = 1
        /\ \A t \in applied : t.id = result[p].id /\ t.key # NoKey

(***************************************************************************)
(* C6.  Exactly-once effect per key: whatever the interleaving, and with   *)
(* calls aborted by storage failures and retried, at most one debit/credit *)
(* pair is ever committed for a key.                                       *)
(***************************************************************************)
C6_OneEffectPerKey ==
    \A t1 \in applied : \A t2 \in applied :
        (t1.key # NoKey /\ t1.key = t2.key) => t1 = t2

\* the key has its one effect and a second call carrying it was refused
C6_Witness ==
    \E t \in applied : \E p \in Procs :
        /\ t.key # NoKey
        /\ result[p] = ErrResult("duplicate_transaction")
        /\ calls = MaxCalls

(***************************************************************************)
(* C7.  Two concurrent calls with the same (source, destination, amount,   *)
(* key) both return a transaction, the same one.  Stated for every call    *)
(* that started before the key was committed and returns when a row of its *)
(* own request is committed.  Violated by the code: the call that inserts  *)
(* second gets DuplicateTransaction.                                       *)
(***************************************************************************)
SameRequest(r, q) ==
    /\ r.key = q.key /\ r.src = q.src /\ r.dst = q.dst
    /\ r.amount = StoreNumeric(q.amount)

C7_ConcurrentSameKeyConverge ==
    [][\A p \in Procs :
          (Returns(p) /\ req[p].key # NoKey /\ seen[p] = 0 /\ ~Aborted(p)) =>
              \A r \in journal' :
                  SameRequest(r, req[p]) => result'[p] = TxResult(r)]_vars

(***************************************************************************)
(* C8.  In every committed state at most one transaction row holds a given *)
(* non-null idempotency key.                                               *)
(***************************************************************************)
C8_UniqueKey ==
    \A r1 \in journal : \A r2 \in journal :
        (r1.key # NoKey /\ r1.key = r2.key) => r1 = r2

\* a row holds the key and another unit of work is about to insert it again
C8_Witness ==
    \E r \in journal : \E p \in Procs :
        /\ r.key # NoKey
        /\ pc[p] = "create"
        /\ req[p].key = r.key

(***************************************************************************)
(* C9.  Transfers without a key are never deduplicated: a keyless call     *)
(* never takes the replay path and its insert is never refused; unless an  *)
(* account is missing, the funds are short or a storage operation fails,   *)
(* it commits a row of its own with an identity no committed row has,      *)
(* debits the source and credits the destination.                          *)
(***************************************************************************)
C9_KeylessNeverDeduplicated ==
    /\ [](\A p \in Procs :
            (pc[p] = "commit" /\ req[p].key = NoKey) => txRow[p].id # 0)
    /\ [][\A p \in Procs : (Returns(p) /\ req[p].key = NoKey) =>
            /\ pc[p] \notin {"lock1", "lock2", "markFailed"}
                  => (CommitsOwnRow(p) \/ Aborted(p))
            /\ CommitsOwnRow(p) =>
                  /\ \A r \in journal : r.id # txRow[p].id
                  /\ journal' = journal \cup {txRow[p]}
                  /\ result'[p] = TxResult(txRow[p])
                  /\ result'[p].status = "completed"
                  /\ LessThan(accounts'[req[p].src], accounts[req[p].src])
                  /\ LessThan(accounts[req[p].dst], accounts'[req[p].dst])]_vars

\* two keyless transfers, equal in every field, both committed
C9_Witness ==
    \E r1 \in journal : \E r2 \in journal :
        /\ r1.id # r2.id
        /\ r1.key = NoKey /\ r2.key = NoKey
        /\ r1.src = r2.src /\ r1.dst = r2.dst /\ r1.amount = r2.amount
        /\ r1.status = "completed" /\ r2.status = "completed"
        /\ Cardinality(applied) = 2

(***************************************************************************)
(* C10.  A transfer whose amount exceeds the balance of the source read    *)
(* under lock writes no balance, returns InsufficientBalance (or the error *)
(* of a failing storage operation) and leaves the committed balances of    *)
(* source and destination as they were.                                    *)
(***************************************************************************)
Short(p) == LessThan(SourceBalance(p), req[p].amount)

C10_InsufficientBalance ==
    /\ [](\A p \in Procs :
            pc[p] \in {"updSrc", "updDst", "updStatus"} => ~Short(p))
    /\ [][\A p \in Procs :
            (pc[p] \in {"check", "markFailed"} /\ Short(p)) =>
                /\ accounts'[req[p].src] = accounts[req[p].src]
                /\ accounts'[req[p].dst] = accounts[req[p].dst]
                /\ wSrc'[p] = Absent /\ wDst'[p] = Absent
                /\ pc'[p] \in {"check", "markFailed", "idle"}
                /\ Returns(p) =>
                      \/ result'[p] = ErrResult("insufficient_balance")
                      \/ Aborted(p)]_vars

\* a call was refused for insufficient funds and both accounts exist
C10_Witness ==
    \E p \in Procs :
        /\ result[p] = ErrResult("insufficient_balance")
        /\ Existing = AcctIds
        /\ applied = {}
        /\ journal = {}

(***************************************************************************)
(* C11.  After a call returns InsufficientBalance the committed journal    *)
(* holds the row of that attempt with status failed.  Violated by the      *)
(* code: Transfer returns ErrInsufficientBalance from inside the unit of   *)
(* work, so WithTransaction rolls back the insert and the status update.   *)
(***************************************************************************)
C11_FailedRecordDurable ==
    [][\A p \in Procs :
          (Returns(p) /\ result'[p] = ErrResult("insufficient_balance")) =>
              \E r \in journal' : /\ r.id = transaction[p].id
                                  /\ r.status = "failed"]_vars

\* what the code does: the refused attempt leaves the journal as it was and
\* no committed row is ever failed or pending
C11_FailedRecordRolledBack ==
    /\ [](\A r \in journal : r.status = "completed")
    /\ [][\A p \in Procs :
            (Returns(p) /\ result'[p] = ErrResult("insufficient_balance")) =>
                /\ txRow[p].id = transaction[p].id
                /\ transaction[p].status = "failed"
                /\ journal' = journal]_vars

(***************************************************************************)
(* C12.  A failed transfer consumes its key: a call that starts after a    *)
(* call carrying the same key was refused for insufficient funds returns   *)
(* that failed transaction (same identity, status failed) and changes no   *)
(* balance.  Violated through C11: the failed row was rolled back, so the  *)
(* lookup finds nothing and the transfer is attempted again.               *)
(***************************************************************************)
C12_FailedKeyConsumed ==
    [][\A p \in Procs : (Returns(p) /\ retry[p] # 0) =>
          /\ accounts' = accounts
          /\ \/ Aborted(p)
             \/ result'[p] = [kind |-> "tx", id |-> retry[p],
                              status |-> "failed", code |-> "none"]]_vars

\* what the code does: the retry is a fresh attempt with a row of its own
C12_RetryAttemptsAgain ==
    [][\A p \in Procs : (Returns(p) /\ retry[p] # 0 /\ result'[p].kind = "tx") =>
          /\ result'[p].id # retry[p]
          /\ result'[p].status = "completed"
          /\ CommitsOwnRow(p)]_vars

(***************************************************************************)
(* C13.  Deadlock freedom: no reachable state has a cycle of calls each    *)
(* waiting for a row lock (or a unique-index entry) another holds, and     *)
(* under fair scheduling every started call returns, by commit or abort.   *)
(***************************************************************************)
\* p waits for q: the statement p is at is blocked by what q holds
WaitsFor(p, q) ==
    /\ q # p
    /\ \/ pc[p] = "lock1" /\ ~NoRows(FirstID(p)) /\ lockOwner[FirstID(p)] = q
       \/ pc[p] = "lock2" /\ ~NoRows(SecondID(p)) /\ lockOwner[SecondID(p)] = q
       \/ /\ pc[p] = "create" /\ req[p].key # NoKey
          /\ txRow[q].id # 0 /\ txRow[q].key = req[p].key

Blockers(p) == {q \in Procs : WaitsFor(p, q)}

RECURSIVE WaitClosure(_, _)
WaitClosure(S, n) ==
    IF n = 0 THEN S
    ELSE WaitClosure(S \cup UNION {Blockers(q) : q \in S}, n - 1)

NoWaitCycle == \A p \in Procs : p \notin WaitClosure(Blockers(p), MaxProcs)

C13_DeadlockFree ==
    /\ []NoWaitCycle
    /\ \A p \in Procs : (pc[p] # "idle") ~> (pc[p] = "idle")

\* two transfers in opposite directions between the same pair, one holding
\* a row lock the other waits for
C13_Witness ==
    \E p \in Procs : \E q \in Procs :
        /\ WaitsFor(q, p)
        /\ req[p].src = req[q].dst /\ req[p].dst = req[q].src
        /\ pc[q] \in {"lock1", "lock2"}

(***************************************************************************)
(* C14.  Atomicity on failure: when a call returns an error from inside    *)
(* the unit of work, at whatever statement (the destination balance write  *)
(* after the source write succeeded, the final status update, the commit), *)
(* the committed accounts and journal are what they were: neither the      *)
(* debit nor the credit nor the transaction row survives, and the writes   *)
(* of the unit of work are gone.                                           *)
(***************************************************************************)
C14_AtomicOnFailure ==
    /\ [][\A p \in Procs : (Returns(p) /\ result'[p].kind = "err") =>
            /\ accounts' = accounts
            /\ journal' = journal
            /\ applied' = applied
            /\ wSrc'[p] = Absent /\ wDst'[p] = Absent
            /\ txRow'[p] = NoRow]_vars
    /\ [](\A p \in Procs :
            (pc[p] \in {"updDst", "updStatus", "commit"} /\ txRow[p].id # 0) =>
                /\ wSrc[p] # Absent
                /\ accounts[req[p].src] # wSrc[p]
                /\ txRow[p] \notin journal)

\* the only call was aborted after it had inserted its row, both accounts
\* funded for every amount: nothing of it is committed
C14_Witness ==
    \E p \in Procs :
        /\ result[p] = ErrResult("internal_error")
        /\ calls = 1 /\ nextId = 2
        /\ journal = {} /\ applied = {}
        /\ Existing = AcctIds
        /\ \A a \in AcctIds : /\ accounts[a] = opening[a]
                               /\ ~LessThan(accounts[a], D(0, 500, 0))

RefusedAtEntry(p) ==
    /\ pc'[p] = "idle"
    /\ UNCHANGED <<accounts, journal, lockOwner, pc, req, firstAccount,
                   secondAccount, txRow, wSrc, wDst, transaction, nextId,
                   opening, seen, applied, refused, retry>>

C16_SameAccountRejected ==
    [][\A p \in Procs, a \in AcctIds, amt \in EntryAmounts,
         k \in Keys \cup {NoKey} :
          TransferCall(p, a, a, amt, k) =>
              /\ result'[p] = ErrResult("same_account_transfer")
              /\ RefusedAtEntry(p)]_vars

\* a same-account call was refused although the account exists and holds
\* the largest balance
C16_Witness ==
    \E p \in Procs : \E a \in Existing :
        /\ result[p] = ErrResult("same_account_transfer")
        /\ accounts[a] = MaxInitialBalance
        /\ pc[p] = "idle"
        /\ journal = {}

(***************************************************************************)
(* C17.  A transfer between two distinct well-formed identities is refused *)
(* with InvalidAmount, before a unit of work is opened and with no state   *)
(* change, exactly when its amount is <= 0, below 0.01 or above            *)
(* 1,000,000,000; 0.01 and 1,000,000,000 themselves pass and the call      *)
(* enters the unit of work with the amount as given.                       *)
(***************************************************************************)
\* the range written out on the digits of the amount
OutOfRange(amt) ==
    \/ amt.neg
    \/ amt.hi = 0 /\ amt.mid = 0 /\ amt.lo < 10000000
    \/ amt.hi > 1
    \/ amt.hi = 1 /\ (amt.mid > 0 \/ amt.lo > 0)

C17_InvalidAmount ==
    /\ ~OutOfRange(D(0, 0, 10000000)) /\ ~OutOfRange(D(1, 0, 0))
    /\ OutOfRange(D(0, 0, 9999999)) /\ OutOfRange(D(1, 0, 1))
    /\ OutOfRange(Zero)
    /\ [][\A p \in Procs, s \in AcctIds, d \in AcctIds, amt \in EntryAmounts,
           k \in Keys \cup {NoKey} :
            (s # d /\ TransferCall(p, s, d, amt, k)) =>
                IF OutOfRange(amt)
                THEN /\ result'[p] = ErrResult("invalid_amount")
                     /\ RefusedAtEntry(p)
                ELSE /\ pc'[p] = "lookup"
                     /\ result'[p] = NoResult
                     /\ req'[p].src = s /\ req'[p].dst = d
                     /\ req'[p].amount = amt /\ req'[p].key = k]_vars

\* a transfer of exactly 1,000,000,000 completed, one of exactly 0.01 is
\* inside its unit of work
C17_Witness ==
    \E p \in Procs : \E r \in journal :
        /\ r.amount = MaxAmount /\ r.status = "completed"
        /\ req[p].amount = MinAmount
        /\ pc[p] \notin {"idle", "lookup"}

\* a call was refused for its amount while both accounts exist
C17_Rejected ==
    \E p \in Procs :
        /\ result[p] = ErrResult("invalid_amount")
        /\ Existing = AcctIds

(***************************************************************************)
(* C18.  A transfer that reaches its locked reads while its source or its  *)
(* destination does not exist returns AccountNotFound (or the error of a   *)
(* failing storage operation): the locked read detects the missing row     *)
(* before the journal row is created, so no identity is drawn, no row is   *)
(* inserted, and the committed accounts and journal stay as they were.     *)
(***************************************************************************)
MissingAccount(p) ==
    accounts[req[p].src] = Absent \/ accounts[req[p].dst] = Absent

C18_AccountNotFound ==
    /\ [](\A p \in Procs :
            pc[p] \in {"create", "check", "markFailed", "updSrc", "updDst",
                       "updStatus"} => ~MissingAccount(p))
    /\ [][\A p \in Procs :
            (pc[p] \in {"lock1", "lock2"} /\ MissingAccount(p)
                /\ pc'[p] # pc[p]) =>
                /\ pc'[p] \in {"lock2", "idle"}
                /\ pc'[p] = "lock2" =>
                      pc[p] = "lock1" /\ accounts[FirstID(p)] # Absent
                /\ accounts' = accounts
                /\ journal' = journal
                /\ txRow'[p] = NoRow
                /\ nextId' = nextId
                /\ Returns(p) =>
                      \/ result'[p] = ErrResult("account_not_found")
                      \/ Aborted(p)]_vars
    /\ [][\A p \in Procs :
            (Returns(p) /\ result'[p] = ErrResult("account_not_found")) =>
                pc[p] \in {"lock1", "lock2"} /\ MissingAccount(p)]_vars

\* account 2 is missing: the call naming it was refused, the row lock of
\* account 1 is free again, and no journal row was ever created
C18_Witness ==
    \E p \in Procs :
        /\ result[p] = ErrResult("account_not_found")
        /\ Existing = {1}
        /\ nextId = 1
        /\ journal = {}
        /\ \A a \in AcctIds : lockOwner[a] = NoProc

C20_CreateThenGet ==
    [][\A id \in AcctIds, bal \in EntryBalances :
          CreateAccount(id, bal) =>
              GetAccount(id)' =
                  [kind |-> "account", id |-> id, balance |-> bal]]_vars

\* what the code does: the read returns the balance as the column stored
\* it, which is the given one when it has at most 8 fractional digits
C20_CreateThenGetStored ==
    [][\A id \in AcctIds, bal \in EntryBalances :
          CreateAccount(id, bal) =>
              /\ GetAccount(id)' = [kind |-> "account", id |-> id,
                                    balance |-> StoreNumeric(bal)]
              /\ bal.lo % 10 = 0 => StoreNumeric(bal) = bal]_vars

(***************************************************************************)
(* C21.  Creating an account whose identity exists (with an admissible     *)
(* initial balance) fails with DuplicateAccount, or with the error of a    *)
(* failing statement, and leaves every balance as it is, also after        *)
(* transfers have changed it; of two creations of one identity, in either  *)
(* order, the first succeeds and its balance is the one stored.            *)
(***************************************************************************)
ValidBalance(bal) == ~bal.neg /\ ~MagLess(MaxInitialBalance, bal)

C21_DuplicateAccount ==
    /\ [][\A p \in Procs, id \in AcctIds, bal \in AccountBalances,
           fail \in BOOLEAN :
            (ValidBalance(bal) /\ CreateAccountRequest(p, id, bal, fail)) =>
                IF fail
                THEN /\ result'[p] = ErrResult("internal_error")
                     /\ accounts' = accounts
                ELSE IF accounts[id] # Absent
                THEN /\ result'[p] = ErrResult("duplicate_account")
                     /\ accounts' = accounts
                ELSE /\ result'[p].kind = "account"
                     /\ accounts' = [accounts EXCEPT ![id] = StoreNumeric(bal)]
                     /\ opening'[id] = StoreNumeric(bal)]_vars
    /\ [][\A a \in AcctIds : opening[a] # Absent => opening'[a] = opening[a]]_vars
    /\ [][\A a \in AcctIds :
            (accounts[a] # Absent /\ accounts'[a] # accounts[a]) =>
                \E p \in Procs : CommitsOwnRow(p) /\ a \in {req[p].src, req[p].dst}]_vars

\* the one active caller completed a transfer, which changed both
\* balances, and then had a creation refused as a duplicate
C21_Witness ==
    \E p \in Procs :
        /\ result[p] = ErrResult("duplicate_account")
        /\ \A q \in Procs \ {p} : result[q] = NoResult /\ pc[q] = "idle"
        /\ journal # {}
        /\ \A a \in AcctIds : accounts[a] # Absent /\ accounts[a] # opening[a]

(***************************************************************************)
(* C22.  get_account answers AccountNotFound for a well-formed positive    *)
(* identity that was never created, the invalid-identity error for an      *)
(* identity that is not a number or not positive, whatever the state of    *)
(* the storage, and the stored account otherwise; it changes nothing.      *)
(***************************************************************************)
\* the positive identity a path variable denotes, 0 if it denotes none
ExpectedId(str) ==
    CASE str = <<"1">> -> 1
      [] str = <<"2">> -> 2
      [] str = <<"+", "1">> -> 1
      [] str = <<"0", "1">> -> 1
      [] str = <<"1", "0">> -> 10
      [] OTHER -> 0

C22_GetAccount ==
    [][\A p \in Procs, str \in IdStrings, fail \in BOOLEAN :
          GetAccountRequest(p, str, fail) =>
              /\ UNCHANGED <<accounts, journal, lockOwner, pc, req, firstAccount,
                             secondAccount, txRow, wSrc, wDst, transaction,
                             nextId, opening, seen, applied, refused, retry>>
              /\ \A q \in Procs \ {p} : result'[q] = result[q]
              /\ IF ExpectedId(str) = 0
                 THEN result'[p] = ErrResult("invalid_input")
                 ELSE IF fail THEN result'[p] = ErrResult("internal_error")
                 ELSE IF ExpectedId(str) \notin Rows
                         \/ opening[ExpectedId(str)] = Absent
                 THEN result'[p] = ErrResult("account_not_found")
                 ELSE result'[p] = [kind |-> "account", id |-> ExpectedId(str),
                                    balance |-> accounts[ExpectedId(str)]]]_vars

\* every account that a transfer can name exists, no transfer has run, and
\* the one request made so far, a read, found no account
C22_Witness ==
    \E p \in Procs :
        /\ result[p] = ErrResult("account_not_found")
        /\ \A q \in Procs \ {p} : result[q] = NoResult
        /\ calls = 1 /\ nextId = 1
        /\ Existing = AcctIds

Min(a, b) == IF a <= b THEN a ELSE b
Max(a, b) == IF a >= b THEN a ELSE b
Held(p) == {a \in Rows : lockOwner[a] = p}

C24_CanonicalLockOrder ==
    /\ [][\A p \in Procs :
            /\ (pc[p] = "lock1" /\ pc'[p] = "lock2") =>
                    /\ Held(p) = {}
                    /\ Held(p)' = {Min(req[p].src, req[p].dst)}
            /\ (pc[p] = "lock2" /\ pc'[p] = "create") =>
                    /\ Held(p) = {Min(req[p].src, req[p].dst)}
                    /\ Held(p)' = {req[p].src, req[p].dst}
            /\ Held(p)' # Held(p) =>
                    \/ pc[p] \in {"lock1", "lock2"} /\ ~Returns(p)
                    \/ Returns(p) /\ Held(p)' = {}]_vars
    /\ [](\A p \in Procs :
            /\ pc[p] \in {"idle", "lookup", "lock1"} => Held(p) = {}
            /\ pc[p] = "lock2" => Held(p) = {Min(req[p].src, req[p].dst)}
            /\ \A a \in Held(p) :
                  /\ a \in {req[p].src, req[p].dst}
                  /\ a = Max(req[p].src, req[p].dst) =>
                        Min(req[p].src, req[p].dst) \in Held(p))

\* a transfer from the larger to the smaller identity holds the lock of
\* its destination and requests that of its source, while a transfer in
\* the other direction waits for the lock of the same smaller identity
C24_Witness ==
    \E p \in Procs : \E q \in Procs :
        /\ pc[p] = "lock2" /\ req[p].src > req[p].dst
        /\ Held(p) = {req[p].dst}
        /\ pc[q] = "lock1" /\ req[q].src < req[q].dst
        /\ req[q].src = req[p].dst

(***************************************************************************)
(* C25.  Mutual exclusion on account rows: at most one open unit of work   *)
(* holds the lock of an account; a balance is written only by a unit of    *)
(* work that holds the lock of that account, and the balance it read,      *)
(* validated and computed from is still the committed one when its write   *)
(* is committed.                                                           *)
(***************************************************************************)
\* the rows whose locked read the unit of work of p has completed
LockedReads(p) ==
    IF pc[p] = "lock2" THEN {Min(req[p].src, req[p].dst)}
    ELSE IF pc[p] \in {"create", "check", "markFailed", "updSrc", "updDst",
                       "updStatus"}
            \/ (pc[p] = "commit" /\ txRow[p].id # 0)
    THEN {req[p].src, req[p].dst}
    ELSE {}

C25_MutualExclusion ==
    /\ [](\A a \in Rows :
            /\ Cardinality({p \in Procs : a \in LockedReads(p)}) <= 1
            /\ \A p \in Procs : a \in LockedReads(p) <=> lockOwner[a] = p)
    /\ [](\A p \in Procs :
            /\ wSrc[p] # Absent => req[p].src \in LockedReads(p)
            /\ wDst[p] # Absent => req[p].dst \in LockedReads(p)
            /\ req[p].src \in LockedReads(p) /\ req[p].dst \in LockedReads(p) =>
                  /\ SourceBalance(p) = accounts[req[p].src]
                  /\ DestBalance(p) = accounts[req[p].dst])
    /\ [][\A a \in Rows :
            (accounts[a] # Absent /\ accounts'[a] # accounts[a]) =>
                \E p \in Procs :
                    /\ a \in LockedReads(p) /\ CommitsOwnRow(p)
                    /\ ~LessThan(accounts[req[p].src], req[p].amount)
                    /\ accounts'[req[p].src] =
                          StoreNumeric(Sub(accounts[req[p].src], req[p].amount))
                    /\ accounts'[req[p].dst] =
                          StoreNumeric(Add(accounts[req[p].dst], req[p].amount))]_vars

\* one transfer has written the source balance under both locks while the
\* other, over the same accounts, waits for its first lock
C25_Witness ==
    \E p \in Procs : \E q \in Procs :
        /\ pc[p] = "updDst" /\ wSrc[p] # Absent
        /\ LockedReads(p) = {req[p].src, req[p].dst}
        /\ pc[q] = "lock1" /\ req[q].src = req[p].dst /\ req[q].dst = req[p].src
        /\ accounts[req[p].src] # wSrc[p]

(***************************************************************************)
(* C26.  When two transfers carrying the same unused key race (both        *)
(* lookups find the key absent), the one that inserts second fails its     *)
(* insert with DuplicateTransaction, is rolled back with no balance        *)
(* change, and its caller receives DuplicateTransaction.  Violated through *)
(* C11: a first insert whose transfer was refused for insufficient funds   *)
(* is rolled back with its key, so the second insert succeeds.             *)
(***************************************************************************)
\* a call carrying the key of p inserted its row while the call of p was
\* open, and ended by commit or by the refusal for insufficient funds
InsertedFirst(p) ==
    /\ req[p].key # NoKey
    /\ seen[p] = 0
    /\ \/ \E r \in journal : r.key = req[p].key
       \/ retry[p] = 0 /\ \E f \in refused : f.key = req[p].key

C26_SecondInsertRefused ==
    [][\A p \in Procs :
          (pc[p] = "create" /\ pc'[p] # "create" /\ InsertedFirst(p)
             /\ ~Aborted(p)) =>
              /\ result'[p] = ErrResult("duplicate_transaction")
              /\ Returns(p)
              /\ accounts' = accounts /\ journal' = journal
              /\ Held(p)' = {}]_vars

\* what the code does: the insert is refused when the first insert was
\* committed, and only then
C26_CommittedKeyRefused ==
    [][\A p \in Procs :
          /\ (pc[p] = "create" /\ pc'[p] # "create" /\ req[p].key # NoKey
                /\ (\E r \in journal : r.key = req[p].key) /\ ~Aborted(p)) =>
                  /\ result'[p] = ErrResult("duplicate_transaction")
                  /\ Returns(p)
                  /\ accounts' = accounts /\ journal' = journal
                  /\ Held(p)' = {}
          /\ (Returns(p) /\ result'[p] = ErrResult("duplicate_transaction")) =>
                  /\ pc[p] = "create" /\ seen[p] = 0
                  /\ \E r \in journal : r.key = req[p].key /\ r.key # NoKey]_vars

\* the second insert of a key went through after the first was rolled back
C26_SecondInsertAccepted ==
    \E p \in Procs :
        /\ pc[p] = "check" /\ txRow[p].key # NoKey /\ retry[p] = 0
        /\ \E f \in refused : f.key = txRow[p].key

(***************************************************************************)
(* C27.  Status lifecycle: a record is created only as pending; its status *)
(* changes at most once, only to completed or failed, and only inside the  *)
(* unit of work that created it; no committed state holds a pending        *)
(* record; the status, amount and account identities of a committed record *)
(* are never changed by a later operation, replays included.               *)
(***************************************************************************)
SameButStatus(r, t) ==
    /\ r.id = t.id /\ r.src = t.src /\ r.dst = t.dst
    /\ r.amount = t.amount /\ r.key = t.key

StatusStep(r, t) ==
    \/ r.status = t.status
    \/ r.status = "pending" /\ t.status \in {"completed", "failed"}

C27_StatusLifecycle ==
    /\ [](\A r \in journal : r.status \in {"completed", "failed"})
    /\ [](\A p \in Procs :
            txRow[p].id # 0 =>
                /\ txRow[p].status \in {"pending", "completed", "failed"}
                /\ transaction[p].status \in {"pending", "completed", "failed"}
                /\ \A r \in journal : r.id # txRow[p].id
                /\ \A q \in Procs \ {p} : txRow[q].id # txRow[p].id)
    /\ [][\A p \in Procs :
            /\ (txRow[p].id = 0 /\ txRow'[p].id # 0) =>
                    /\ pc[p] = "create"
                    /\ txRow'[p].status = "pending"
                    /\ transaction'[p].status = "pending"
            /\ (txRow[p].id # 0 /\ txRow'[p].id # 0) =>
                    /\ SameButStatus(txRow[p], txRow'[p])
                    /\ StatusStep(txRow[p], txRow'[p])
                    /\ SameButStatus(transaction[p], transaction'[p])
                    /\ StatusStep(transaction[p], transaction'[p])
            /\ (txRow[p].id # 0 /\ txRow'[p].id = 0) =>
                    /\ Returns(p)
                    /\ journal' \in {journal, journal \cup {txRow[p]}}]_vars
    /\ [][/\ journal \subseteq journal'
          /\ \A r \in journal' \ journal :
                \E p \in Procs : r = txRow[p] /\ CommitsOwnRow(p)
          /\ \A p \in Procs :
                (pc[p] = "commit" /\ txRow[p].id = 0 /\ Returns(p)) =>
                    journal' = journal]_vars

\* a second transfer is about to commit its completed record next to a
\* committed one
C27_Witness ==
    \E p \in Procs :
        /\ pc[p] = "commit" /\ txRow[p].status = "completed"
        /\ Cardinality(journal) = 1
        /\ \A r \in journal : r.status = "completed" /\ r.id # txRow[p].id

(***************************************************************************)
(* C28.  Step order inside one unit of work: lookup, lock of the first     *)
(* account, lock of the second, insertion of the pending row, funds        *)
(* check, source balance write, destination balance write, status update,  *)
(* commit; the row is inserted only while both locks are held and before   *)
(* any balance is compared or written.                                     *)
(***************************************************************************)
\* the place of a statement in the order of the claim
Rank(l) ==
    CASE l = "lookup" -> 1 [] l = "lock1" -> 2 [] l = "lock2" -> 3
      [] l = "create" -> 4 [] l = "check" -> 5 [] l = "updSrc" -> 6
      [] l = "markFailed" -> 6 [] l = "updDst" -> 7 [] l = "updStatus" -> 8
      [] l = "commit" -> 9 [] OTHER -> 0

C28_StepOrder ==
    [][\A p \in Procs :
          \* one statement after the other, the replay going straight to commit
          /\ (pc[p] # "idle" /\ pc'[p] \notin {"idle", pc[p]}) =>
                \/ Rank(pc'[p]) = Rank(pc[p]) + 1
                \/ pc[p] = "lookup" /\ pc'[p] = "commit"
          /\ (pc[p] = "idle" /\ pc'[p] # "idle") => pc'[p] = "lookup"
          \* the locks come after the lookup and before the row
          /\ Held(p)' # Held(p) /\ Held(p)' # {} =>
                /\ pc[p] \in {"lock1", "lock2"}
                /\ txRow[p].id = 0 /\ transaction[p].id = 0
                /\ wSrc[p] = Absent /\ wDst[p] = Absent
          \* the pending row: under both locks, before check and writes
          /\ (txRow[p].id = 0 /\ txRow'[p].id # 0) =>
                /\ Held(p) = {req[p].src, req[p].dst}
                /\ Held(p)' = Held(p)
                /\ wSrc'[p] = Absent /\ wDst'[p] = Absent
                /\ txRow'[p].status = "pending"
                /\ transaction'[p].status = "pending"
                /\ pc'[p] = "check"
          \* the outcome of the funds check: after the row, before the writes
          /\ (pc[p] = "check" /\ pc'[p] \in {"updSrc", "markFailed"}) =>
                /\ txRow[p].id # 0 /\ txRow[p].status = "pending"
                /\ wSrc[p] = Absent /\ wDst[p] = Absent
                /\ (pc'[p] = "markFailed") <=>
                      LessThan(accounts[req[p].src], req[p].amount)
          \* the source write: after the row and a passed check
          /\ (wSrc[p] = Absent /\ wSrc'[p] # Absent) =>
                /\ txRow[p].id # 0 /\ txRow[p].status = "pending"
                /\ ~LessThan(accounts[req[p].src], req[p].amount)
                /\ wDst'[p] = Absent
                /\ Held(p) = {req[p].src, req[p].dst}
          \* the destination write: after the source write
          /\ (wDst[p] = Absent /\ wDst'[p] # Absent) =>
                /\ wSrc[p] # Absent /\ wSrc'[p] = wSrc[p]
                /\ txRow'[p].status = "pending"
          \* the status update: after both writes
          /\ (txRow[p].status = "pending" /\ txRow'[p].status = "completed") =>
                /\ wSrc[p] # Absent /\ wDst[p] # Absent
                /\ txRow[p] \notin journal'
          \* the commit: after the status update
          /\ CommitsOwnRow(p) =>
                /\ txRow[p].status = "completed"
                /\ wSrc[p] # Absent /\ wDst[p] # Absent
                /\ Held(p) = {req[p].src, req[p].dst}]_vars

\* after a committed transfer, a call has inserted its pending row under
\* both locks and stands before the funds check, nothing written
C28_Witness ==
    \E p \in Procs :
        /\ pc[p] = "check" /\ txRow[p].status = "pending"
        /\ Held(p) = {req[p].src, req[p].dst}
        /\ wSrc[p] = Absent /\ wDst[p] = Absent
        /\ journal # {}

(***************************************************************************)
(* C29.  The idempotent short-circuit has no effect: when the lookup       *)
(* inside the unit of work finds a transaction for the supplied key, the   *)
(* transfer acquires no account lock, writes no balance, inserts or        *)
(* updates no journal row, commits, and returns the stored transaction     *)
(* with its stored identity, accounts, amount and status.                  *)
(***************************************************************************)
\* the unit of work of p found its key at the lookup
ShortCircuit(p) == pc[p] = "commit" /\ txRow[p].id = 0

C29_ShortCircuitNoEffect ==
    /\ [][\A p \in Procs :
            /\ (pc[p] = "lookup" /\ pc'[p] \notin {"lookup", "idle"}
                  /\ req[p].key # NoKey
                  /\ \E r \in journal : r.key = req[p].key) =>
                    /\ ShortCircuit(p)'
                    /\ transaction'[p] \in journal
                    /\ transaction'[p].key = req[p].key
            /\ (ShortCircuit(p) /\ pc'[p] # "commit") =>
                    /\ Returns(p)
                    /\ UNCHANGED <<accounts, journal, lockOwner, nextId, applied>>
                    /\ \/ Aborted(p)
                       \/ /\ result'[p].kind = "tx"
                          /\ result'[p].id = transaction[p].id
                          /\ result'[p].status = transaction[p].status
            /\ (pc[p] # "idle" /\ seen[p] # 0 /\ pc'[p] # pc[p]) =>
                    /\ pc[p] \in {"lookup", "commit"}
                    /\ UNCHANGED <<accounts, journal, lockOwner, nextId, applied,
                                   txRow, wSrc, wDst>>]_vars
    /\ [](\A p \in Procs :
            ShortCircuit(p) =>
                /\ Held(p) = {} /\ firstAccount[p] = Absent
                /\ secondAccount[p] = Absent
                /\ wSrc[p] = Absent /\ wDst[p] = Absent
                /\ req[p].key # NoKey
                /\ transaction[p] \in journal
                /\ transaction[p].key = req[p].key)

\* a call found the committed transaction of its key and is about to
\* return it; the first caller holds the same transaction, no lock is held
C29_Witness ==
    \E p \in Procs : \E q \in Procs :
        /\ ShortCircuit(p)
        /\ pc[q] = "idle" /\ result[q] = TxResult(transaction[p])
        /\ \A a \in Rows : lockOwner[a] = NoProc
        /\ \E a \in AcctIds : accounts[a] # opening[a]

(***************************************************************************)
(* C30.  Two concurrent transfers over disjoint account pairs, with no     *)
(* shared key, never wait for each other: in every state the next          *)
(* statement of each is enabled whatever locks the other holds; and their  *)
(* effects commute: a statement of one reads and writes only its own       *)
(* caller's data and the rows of its own pair, and adds its own row to     *)
(* the journal.                                                            *)
(***************************************************************************)
C30_DisjointPairsParallel ==
    /\ [](\A p \in Procs :
            pc[p] # "idle" => (ENABLED Step(p)) /\ Blockers(p) = {})
    /\ [](\A p \in Procs : Held(p) \subseteq PairOf(p))
    /\ [][\A p \in Procs :
            pc'[p] # pc[p] =>
                \* nothing of another caller, no row of another pair
                /\ \A q \in Procs \ {p} :
                      /\ pc'[q] = pc[q] /\ req'[q] = req[q]
                      /\ firstAccount'[q] = firstAccount[q]
                      /\ secondAccount'[q] = secondAccount[q]
                      /\ txRow'[q] = txRow[q] /\ transaction'[q] = transaction[q]
                      /\ wSrc'[q] = wSrc[q] /\ wDst'[q] = wDst[q]
                      /\ result'[q] = result[q]
                /\ \A a \in Rows \ PairOf(p) :
                      accounts'[a] = accounts[a] /\ lockOwner'[a] = lockOwner[a]
                \* the journal: its own row or nothing
                /\ journal' \in {journal, journal \cup {txRow[p]}}
                \* what it writes is computed from its own request and the
                \* rows of its pair
                /\ accounts' # accounts =>
                      /\ {req[p].src, req[p].dst} = PairOf(p)
                      /\ accounts'[req[p].src] =
                            StoreNumeric(Sub(accounts[req[p].src], req[p].amount))
                      /\ accounts'[req[p].dst] =
                            StoreNumeric(Add(accounts[req[p].dst], req[p].amount))
                \* its outcome does not depend on the other callers
                /\ (Returns(p) /\ ~Aborted(p)) =>
                      (result'[p].kind = "tx" <=>
                          \/ ShortCircuit(p)
                          \/ ~LessThan(accounts[req[p].src], req[p].amount))]_vars

\* both transfers are under way, each holding the locks of its own pair
\* and each with its source balance written
C30_Witness ==
    \A p \in Procs :
        /\ pc[p] = "updDst" /\ wSrc[p] # Absent
        /\ Held(p) = PairOf(p)

(***************************************************************************)
(* C31.  No transfer holds a lock indefinitely: every lock a transfer      *)
(* acquired is eventually released, on every path out of the unit of work, *)
(* and a transfer waiting for a lock when its caller's deadline has passed *)
(* is aborted instead of going on.  Violated by the code: no deadline      *)
(* reaches the unit of work, the waiting transfer takes the lock when it   *)
(* becomes free, however late.                                             *)
(***************************************************************************)
C31_NoLockHeldIndefinitely ==
    /\ \A p \in Procs : \A a \in Rows :
          (lockOwner[a] = p) ~> (lockOwner[a] # p)
    /\ [][\A p \in Procs :
            (req[p].expired /\ req[p].waiting /\ pc'[p] # pc[p]) =>
                /\ Returns(p)
                /\ result'[p].kind = "err"
                /\ Held(p)' = {}]_vars

\* what the code does: under fair scheduling every lock is released, and
\* every way out of the unit of work releases all locks of the call
C31_LocksReleased ==
    /\ \A p \in Procs : \A a \in Rows :
          (lockOwner[a] = p) ~> (lockOwner[a] # p)
    /\ [][\A p \in Procs : Returns(p) => Held(p)' = {}]_vars
    /\ [](\A p \in Procs : pc[p] = "idle" => Held(p) = {})

\* a call went on to complete its transfer after its deadline had passed
\* while it waited for a lock
C31_LateTransfer ==
    \E p \in Procs :
        /\ req[p].expired /\ req[p].waiting
        /\ pc[p] = "commit" /\ txRow[p].status = "completed"
        /\ journal # {}

(***************************************************************************)
(* C32.  Guaranteed abort on an unexpected fault: if the function run      *)
(* inside a unit of work panics, before, between or after its writes, the  *)
(* unit of work is rolled back, none of its writes reaches the committed   *)
(* state, its locks are released, and the panic reaches the caller         *)
(* instead of a result.                                                    *)
(***************************************************************************)
C32_PanicRollsBack ==
    /\ [][\A p \in Procs :
            /\ Panic(p) => result'[p] = PanicResult /\ Returns(p)
            /\ (Returns(p) /\ result'[p].kind = "panic") =>
                  /\ UNCHANGED <<accounts, journal, applied>>
                  /\ Held(p)' = {}
                  /\ \A a \in Rows \ Held(p) : lockOwner'[a] = lockOwner[a]
                  /\ wSrc'[p] = Absent /\ wDst'[p] = Absent
                  /\ txRow'[p] = NoRow]_vars
    /\ [](\A p \in Procs :
            pc[p] = "idle" =>
                /\ Held(p) = {}
                /\ wSrc[p] = Absent /\ wDst[p] = Absent /\ txRow[p] = NoRow)
    /\ [](\A r \in journal : r.status = "completed")

\* the only call made so far panicked after it had inserted its row:
\* nothing is committed, no lock is held
C32_Witness ==
    \E p \in Procs :
        /\ result[p] = PanicResult
        /\ \A q \in Procs \ {p} : result[q] = NoResult /\ pc[q] = "idle"
        /\ nextId = 2 /\ journal = {} /\ accounts = opening
        /\ \A a \in Rows : lockOwner[a] = NoProc

(***************************************************************************)
(* C33.  Opening a unit of work from a handle that is already inside a     *)
(* unit of work fails with the cannot-begin-transaction error without      *)
(* running the supplied function, and the enclosing unit of work stays     *)
(* open and unaffected: its position, locks, pending writes and the        *)
(* committed state are as before, and it can still go on to commit.        *)
(***************************************************************************)
C33_NestedFails ==
    [][\A p \in Procs :
          NestedWithTransaction(p) =>
              /\ result'[p] = ErrCannotBeginTransaction
              /\ pc'[p] = pc[p] /\ pc[p] # "idle"
              /\ Held(p)' = Held(p)
              /\ UNCHANGED <<accounts, journal, lockOwner, txRow, wSrc, wDst,
                             firstAccount, secondAccount, nextId, applied>>
              /\ ENABLED Step(p) => (ENABLED Step(p))']_vars

\* the nested attempt failed after the source write, and the enclosing unit
\* of work went on to its commit with both writes and the completed row
C33_Witness ==
    \E p \in Procs :
        /\ result[p] = ErrCannotBeginTransaction
        /\ pc[p] = "commit"
        /\ txRow[p].status = "completed"
        /\ wSrc[p] # Absent /\ wDst[p] # Absent
        /\ Held(p) = {req[p].src, req[p].dst}

(***************************************************************************)
(* C34.  Transfer never swallows an error of the unit of work.  A failing  *)
(* lookup, locked read, insert, balance write, status update or commit     *)
(* makes the call return that error and no transaction, with nothing       *)
(* committed; a transaction is returned only from a commit; the only       *)
(* error Transfer originates inside the unit of work is                    *)
(* insufficient_balance, after the 'failed' status update went through,    *)
(* and when that update fails the storage error is returned instead.       *)
(***************************************************************************)
C34_ErrorsPropagate ==
    [][\A p \in Procs :
          /\ StorageFailure(p) =>
                /\ Returns(p)
                /\ result'[p] = ErrResult("internal_error")
          /\ Returns(p) =>
                /\ result'[p].kind \in {"tx", "err"}
                /\ result'[p].kind = "tx" =>
                      /\ pc[p] = "commit"
                      /\ result'[p].id # 0
                      /\ \E r \in journal' : r.id = result'[p].id
                /\ result'[p].kind = "err" =>
                      /\ result'[p].id = 0
                      /\ UNCHANGED <<accounts, journal>>
                      /\ result'[p].code \in
                            {"internal_error", "account_not_found",
                             "duplicate_transaction", "insufficient_balance"}
                      /\ result'[p].code = "account_not_found" =>
                            \/ pc[p] = "lock1" /\ NoRows(FirstID(p))
                            \/ pc[p] = "lock2" /\ NoRows(SecondID(p))
                      /\ result'[p].code = "duplicate_transaction" =>
                            pc[p] = "create"
                      /\ result'[p].code = "insufficient_balance" =>
                            /\ pc[p] = "markFailed"
                            /\ LessThan(SourceBalance(p), req[p].amount)]_vars

\* two calls inserted a row each; one was refused for funds after its
\* 'failed' update, the other returned the error of a failing operation;
\* neither row is in the journal
C34_Witness ==
    \E p \in Procs, q \in Procs :
        /\ result[p] = ErrResult("insufficient_balance")
        /\ result[q] = ErrResult("internal_error")
        /\ pc[p] = "idle" /\ pc[q] = "idle"
        /\ nextId = 3 /\ journal = {} /\ accounts = opening

(***************************************************************************)
(* C35.  create_account answers invalid_amount when the initial balance    *)
(* is negative or above the ceiling 10,000,000,000, and invalid_input      *)
(* when the balance is in range and the identity is <= 0 (when both are    *)
(* wrong the answer is one of the two); a rejected call creates no         *)
(* account, whether or not storage would fail; a balance equal to the      *)
(* ceiling is accepted and stored.                                         *)
(***************************************************************************)
C35_CreateAccountValidation ==
    [][\A p \in Procs, id \in CreateIds, bal \in AccountBalances,
         fail \in BOOLEAN :
          CreateAccountRequest(p, id, bal, fail) =>
              LET badBalance == IsNegative(bal) \/ GreaterThan(bal, D(10, 0, 0))
                  badId == id <= 0
              IN  /\ (badBalance /\ ~badId) =>
                        result'[p] = ErrResult("invalid_amount")
                  /\ (~badBalance /\ badId) =>
                        result'[p] = ErrResult("invalid_input")
                  /\ (badBalance /\ badId) =>
                        result'[p] \in {ErrResult("invalid_amount"),
                                        ErrResult("invalid_input")}
                  /\ (badBalance \/ badId) =>
                        UNCHANGED <<accounts, opening, journal>>
                  /\ (bal = D(10, 0, 0) /\ ~badId /\ accounts[id] = Absent
                        /\ ~fail) =>
                        /\ result'[p].kind = "account"
                        /\ accounts'[id] = D(10, 0, 0)]_vars

\* one call created an account with exactly the ceiling, the other was
\* rejected for its balance, and the first account is the only one
C35_Witness ==
    \E p \in Procs, q \in Procs, id \in AcctIds :
        /\ result[p] = [kind |-> "account", id |-> id, balance |-> D(10, 0, 0)]
        /\ result[q] = ErrResult("invalid_amount")
        /\ calls = 2
        /\ Existing = {id}
        /\ accounts[id] = D(10, 0, 0)

(***************************************************************************)
(* C36.  Balances are bounded: in every committed state every account      *)
(* balance is at most the ceiling 10,000,000,000, so a transfer that       *)
(* would credit a destination above the ceiling does not commit.           *)
(***************************************************************************)
C36_BalancesBounded ==
    \A a \in Existing : ~GreaterThan(accounts[a], MaxInitialBalance)

(***************************************************************************)
(* C37.  No rounding drift: for every amount a accepted by validation,     *)
(* amounts with more than 8 fractional digits included, the balances       *)
(* stored by a completed transfer are exactly x - a and y + a, x and y     *)
(* being the stored balances before, so the stored sum of the two          *)
(* balances is unchanged.                                                  *)
(***************************************************************************)
C37_NoRoundingDrift ==
    [][\A p \in Procs :
          (CommitsOwnRow(p) /\ txRow[p].status = "completed") =>
              LET x == accounts[req[p].src]
                  y == accounts[req[p].dst]
                  a == req[p].amount
              IN  /\ ValidateTransfer(req[p].src, req[p].dst, a) = "ok"
                  /\ accounts'[req[p].src] = Sub(x, a)
                  /\ accounts'[req[p].dst] = Add(y, a)
                  /\ Add(accounts'[req[p].src], accounts'[req[p].dst])
                        = Add(x, y)]_vars

(***************************************************************************)
(* C38.  Replay is decided by the key alone: when a committed transaction  *)
(* exists for key K, a call carrying K that passed validation returns      *)
(* that stored transaction unchanged, without error and without any        *)
(* change of a balance or of the journal, also when its source,            *)
(* destination or amount differ from the stored ones or its accounts do    *)
(* not exist; it never reaches the account reads.  The only other end is   *)
(* a failing storage operation.                                            *)
(***************************************************************************)
C38_ReplayByKeyAlone ==
    [][\A p \in Procs :
          /\ (pc[p] = "lookup" /\ seen[p] # 0 /\ pc'[p] # pc[p]) =>
                /\ pc'[p] \in {"commit", "idle"}
                /\ pc'[p] = "idle" => Aborted(p)
                /\ pc'[p] = "commit" =>
                      /\ transaction'[p] \in journal
                      /\ transaction'[p].id = seen[p]
                      /\ transaction'[p].key = req[p].key
          /\ (Returns(p) /\ seen[p] # 0 /\ ~Aborted(p)) =>
                /\ pc[p] = "commit"
                /\ transaction[p] \in journal
                /\ result'[p] = TxResult(transaction[p])
                /\ result'[p].id = seen[p]
                /\ UNCHANGED <<accounts, journal, applied, nextId>>]_vars

\* a call found the committed transaction of its key although its source
\* was never created and its destination and amount are not the stored ones
C38_Witness ==
    \E p \in Procs :
        /\ ShortCircuit(p)
        /\ transaction[p] \in journal
        /\ transaction[p].key = req[p].key
        /\ NoRows(req[p].src)
        /\ req[p].dst # transaction[p].dst
        /\ req[p].amount # transaction[p].amount

(***************************************************************************)
(* C39.  Transfer checks its inputs in a fixed order, before it opens a    *)
(* unit of work: a malformed or non-positive source or destination         *)
(* identity gives invalid_input, also when the two are the same or the     *)
(* amount is invalid; otherwise source = destination gives                 *)
(* same_account_transfer, also when the amount is invalid; otherwise an    *)
(* amount out of range gives invalid_amount.  A refused call changes       *)
(* nothing and takes no lock, and it is refused also when its key already  *)
(* has a committed transaction: it gets the error, not that transaction.   *)
(***************************************************************************)
C39_ValidationPrecedence ==
    [][\A p \in Procs, ss \in RequestStrings, ds \in RequestStrings,
         amt \in RequestAmounts, k \in Keys \cup {NoKey} :
          TransferRequest(p, ss, ds, amt, k) =>
              LET s == ExpectedId(ss)
                  d == ExpectedId(ds)
                  badId == s = 0 \/ d = 0
                  expected ==
                      IF badId THEN "invalid_input"
                      ELSE IF s = d THEN "same_account_transfer"
                      ELSE IF OutOfRange(amt) THEN "invalid_amount"
                      ELSE "ok"
              IN  /\ expected # "ok" =>
                        /\ result'[p] = ErrResult(expected)
                        /\ RefusedAtEntry(p)
                        /\ Held(p)' = {}
                  /\ expected = "ok" =>
                        /\ pc'[p] = "lookup"
                        /\ req'[p].src = s /\ req'[p].dst = d
                        /\ req'[p].amount = amt /\ req'[p].key = k
                        /\ UNCHANGED <<accounts, journal, lockOwner>>]_vars

\* a keyed transfer is committed and was answered to one caller; the other
\* caller's second call was refused for its amount
C39_Witness ==
    \E p \in Procs, q \in Procs, r \in journal :
        /\ r.key # NoKey
        /\ result[q] = TxResult(r)
        /\ result[p] = ErrResult("invalid_amount")
        /\ pc[p] = "idle" /\ pc[q] = "idle"
        /\ calls = MaxCalls
        /\ \A a \in Rows : lockOwner[a] = NoProc

====
